---- MODULE Spec2Model ----
(***************************************************************************)
(* Vibration field synthesis engine of vib-sim: the zustand store          *)
(* (store.ts), the per-frame consumers of the displacement field           *)
(* (DeformableMesh, DynamicVector) and the interpolation kernel            *)
(* (odsMath: calculateComponentDisplacement, calculateVertexDisplacement). *)
(*                                                                         *)
(* Numbers.  A JavaScript number is modelled as an exact rational          *)
(* [n |-> numerator, d |-> denominator > 0] in lowest terms.  Angles are   *)
(* kept in degrees: the source's x * Math.PI / 180 followed by Math.sin    *)
(* is Sin of x degrees, and omega = rpm * 2 * PI / 60 rad/s is rpm * 6     *)
(* degrees per second.  Sin, sqrt and pow are exact on the inputs the      *)
(* specifications draw and undefined elsewhere, so no rounding is modelled.*)
(***************************************************************************)
EXTENDS Integers, Sequences, FiniteSets, TLC

VARIABLES
    store,      \* the zustand state object (store.ts:57-79)
    consumers,  \* one record per useFrame subscriber: its timeRef, ref and last query
    lastOp,     \* history: the operation of the last step and its arguments
    kin,        \* kernel run: the arguments of one calculateVertexDisplacement call
    kpc,        \* kernel run: position in the call ("idle", "loop", "done")
    kidx,       \* kernel run: index of the next sensor of the for loop
    kacc,       \* kernel run: the displacement vector being accumulated
    ktotal,     \* kernel run: totalWeight
    klog,       \* kernel run: per-sensor weight and magnitudes, in loop order
    ein,        \* component run: the arguments of one calculateComponentDisplacement call
    epc,        \* component run: position in the call ("idle", "call", "done")
    eout,       \* component run: the value returned
    oin,        \* orbit run: the store fields one OrbitWindow effect reads
    opc,        \* orbit run: position in the effect ("idle", "setup", "loop", "dot", "done")
    oidx,       \* orbit run: the loop counter i
    opath,      \* orbit run: the (t, px, py) passed to moveTo / lineTo, in order
    odot,       \* orbit run: the keyphasor dot (kpx, kpy)
    heap,       \* object run: the arrays and sensor objects allocated, by address
    roots,      \* object run: the addresses state.points and state.orbitPoints hold
    snap        \* object run: the roster a consumer captured and what it has read of it

kvars == <<kin, kpc, kidx, kacc, ktotal, klog>>
evars == <<ein, epc, eout>>
ovars == <<oin, opc, oidx, opath, odot>>
hvars == <<heap, roots, snap>>
runvars == <<kvars, evars, ovars, hvars>>
vars == <<store, consumers, lastOp, kvars, evars, ovars, hvars>>

\* ------------------------------------------------------------------ bounds

MaxTime == 3        \* ticks stop once a clock would pass this value
MaxDelta == 1       \* frame deltas are drawn from 0..MaxDelta
NumMeshes == 1      \* DeformableMesh instances modelled (MachineTrain mounts 7)
MaxSensors == 2     \* kernel runs use rosters of 0..MaxSensors sensors
MaxHarmonics == 3   \* component runs use harmonics lists of 0..MaxHarmonics entries
SigBits == 8        \* significand bits of the floating-point format of component runs

\* ------------------------------------------------------------ rationals

Abs(x) == IF x < 0 THEN -x ELSE x

RECURSIVE GCD(_, _)
GCD(a, b) == IF b = 0 THEN a ELSE GCD(b, a % b)

R(n, d) ==
    LET g == GCD(Abs(n), Abs(d))
        s == IF d < 0 THEN -1 ELSE 1
    IN  [n |-> (s * n) \div g, d |-> (s * d) \div g]

I(n) == [n |-> n, d |-> 1]
Zero == I(0)
One == I(1)

\* Sums go through the least common denominator and products cancel across
\* first, so that intermediate integers stay small.
RAdd(a, b) ==
    LET g == GCD(a.d, b.d)
    IN  R(a.n * (b.d \div g) + b.n * (a.d \div g), (a.d \div g) * b.d)
RSub(a, b) == RAdd(a, [n |-> -b.n, d |-> b.d])
RMul(a, b) ==
    LET g1 == GCD(Abs(a.n), b.d)
        g2 == GCD(Abs(b.n), a.d)
    IN  IF a.n = 0 \/ b.n = 0 THEN [n |-> 0, d |-> 1]
        ELSE [n |-> (a.n \div g1) * (b.n \div g2), d |-> (a.d \div g2) * (b.d \div g1)]
RDiv(a, b) ==
    RMul(a, IF b.n < 0 THEN [n |-> -b.d, d |-> -b.n] ELSE [n |-> b.d, d |-> b.n])
RLt(a, b) ==
    LET g == GCD(a.d, b.d) IN a.n * (b.d \div g) < b.n * (a.d \div g)
RLe(a, b) ==
    LET g == GCD(a.d, b.d) IN a.n * (b.d \div g) <= b.n * (a.d \div g)

\* ------------------------------------------------------------ store.ts

Comp(amp, ph) == [amplitude |-> amp, phase |-> ph, harmonics |-> <<>>, noise |-> Zero]

createPoint(id, label, x, y, z, isRef) ==
    [id |-> id, label |-> label, position |-> <<x, y, z>>,
     horizontal |-> Comp(R(2, 10), Zero),
     vertical |-> Comp(R(1, 10), Zero),
     axial |-> Comp(R(1, 10), Zero),
     isReference |-> isRef]

INITIAL_ODS_POINTS == <<
    createPoint("m-foot-de-l", "Motor Foot DE-L", R(6, 10), R(2, 10), R(8, 10), FALSE),
    createPoint("m-foot-de-r", "Motor Foot DE-R", R(-6, 10), R(2, 10), R(8, 10), FALSE),
    createPoint("m-foot-nde-l", "Motor Foot NDE-L", R(6, 10), R(2, 10), R(-8, 10), FALSE),
    createPoint("m-foot-nde-r", "Motor Foot NDE-R", R(-6, 10), R(2, 10), R(-8, 10), FALSE),
    createPoint("m-nde", "Motor NDE Brg", Zero, R(14, 10), R(-8, 10), FALSE),
    createPoint("m-de", "Motor DE Brg", Zero, R(14, 10), One, TRUE),
    createPoint("p-de", "Pump Inboard Brg", Zero, R(135, 100), R(55, 10), FALSE),
    createPoint("p-nde", "Pump Outboard Brg", Zero, R(135, 100), R(65, 10), FALSE) >>

INITIAL_ORBIT_POINTS == <<
    createPoint("probe-x", "Probe X", One, One, Zero, FALSE),
    createPoint("probe-y", "Probe Y", I(-1), One, Zero, FALSE),
    createPoint("keyphasor", "Keyphasor", Zero, R(15, 10), R(-5, 10), TRUE) >>

InitialStore ==
    [appMode |-> "ODS",
     animationRpm |-> I(110),
     machineRpm |-> I(1480),
     globalGain |-> I(10),
     lineFreq |-> I(50),
     isPlaying |-> TRUE,
     wireframe |-> FALSE,
     isAnalysisMode |-> FALSE,
     isSettingsOpen |-> FALSE,
     isUploadModalOpen |-> FALSE,
     isOrbitPlotOpen |-> FALSE,
     isOrbitSimulationVisible |-> FALSE,
     currentMode |-> "Manual Analysis",
     currentOrbitFault |-> "Manual Config",
     simulationTime |-> [current |-> 0],
     shaftAngle |-> [current |-> 0],
     points |-> INITIAL_ODS_POINTS,
     orbitPoints |-> INITIAL_ORBIT_POINTS,
     selectedPointId |-> "null"]

\* zustand's set(partial): a shallow merge of partial into the state object.
Set(s, partial) ==
    [f \in DOMAIN s |-> IF f \in DOMAIN partial THEN partial[f] ELSE s[f]]

Ids(points) == {points[i].id : i \in DOMAIN points}

\* ------------------------------------------------- per-frame consumers

\* The seven DeformableMesh elements MachineTrain mounts, by what they draw.
MeshNames == <<"motor", "motorShaft", "couplingMotor", "couplingPump",
               "pumpShaft", "pump", "skid">>
MeshKeys == {MeshNames[i] : i \in 1..NumMeshes}

\* A roster setAllPoints may install that is not derived from the current one.
ImportedPoints == <<
    createPoint("m-de", "Motor DE Brg", Zero, R(14, 10), One, TRUE),
    createPoint("x-new", "Imported", One, One, One, FALSE) >>

\* A roster setAllPoints may install whose second id is an orbit probe's.
CollidingPoints == <<
    createPoint("m-de", "Motor DE Brg", Zero, R(14, 10), One, TRUE),
    createPoint("probe-x", "Imported", One, One, One, FALSE) >>

\* VectorField keys one DynamicVector per sensor id.
VectorKeys == Ids(INITIAL_ODS_POINTS) \cup Ids(ImportedPoints) \cup Ids(CollidingPoints)
ConsumerKeys == MeshKeys \cup VectorKeys

\* useRef(0) of a component that is not (or not yet) mounted.
Unmounted ==
    [mounted |-> FALSE, ready |-> FALSE, timeRef |-> 0, evaluated |-> FALSE, evalT |-> 0]

\* A fresh instance: timeRef = useRef(0); ready says whether the callback's
\* guards pass (the ref is set and, for a mesh, the geometry has positions).
Mounted(ready) ==
    [mounted |-> TRUE, ready |-> ready, timeRef |-> 0, evaluated |-> FALSE, evalT |-> 0]


\* Mutant of DynamicVectorFrame: timeRef.current = delta instead of += delta.
DynamicVectorFrame_assign(c, s, delta) ==
    IF ~c.ready THEN [c EXCEPT !.evaluated = FALSE]
    ELSE LET t == IF s.isPlaying THEN delta ELSE c.timeRef
         IN  [c EXCEPT !.timeRef = t, !.evaluated = TRUE, !.evalT = t]

\* DynamicVector's useFrame callback for one frame: c is the instance's record.
DynamicVectorFrame(c, s, delta) ==
    IF ~c.ready THEN [c EXCEPT !.evaluated = FALSE]
    ELSE LET t == IF s.isPlaying THEN c.timeRef + delta ELSE c.timeRef
         IN  [c EXCEPT !.timeRef = t, !.evaluated = TRUE, !.evalT = t]

\* DeformableMesh's useFrame callback for one frame.
DeformableMeshFrame(c, s, delta) ==
    IF ~c.ready THEN [c EXCEPT !.evaluated = FALSE]
    ELSE LET t == IF s.isPlaying THEN c.timeRef + delta ELSE c.timeRef
         IN  [c EXCEPT !.timeRef = t, !.evaluated = TRUE, !.evalT = t]

\* React's commit after a store change: VectorField maps store.points to
\* DynamicVector elements keyed by id, so an instance lives as long as its key
\* stays in the roster; a new key mounts a new instance, whose ref is attached
\* in the same commit.  Meshes do not depend on the roster.
Render(cons, s) ==
    [k \in ConsumerKeys |->
        IF k \in MeshKeys THEN cons[k]
        ELSE IF k \in Ids(s.points)
             THEN (IF cons[k].mounted THEN cons[k] ELSE Mounted(TRUE))
             ELSE Unmounted]

\* One rendered frame: every subscribed useFrame callback runs with the same delta.
Frame(cons, s, delta) ==
    [k \in ConsumerKeys |->
        IF ~cons[k].mounted THEN cons[k]
        ELSE IF k \in MeshKeys THEN DeformableMeshFrame(cons[k], s, delta)
        ELSE DynamicVectorFrame(cons[k], s, delta)]

\* ------------------------------------------------------- store actions


\* Mutants of togglePlay: a pause instead of a toggle; a second field toggled.
togglePlay_pause(s) == [isPlaying |-> FALSE]
togglePlay_wireframe(s) == [isPlaying |-> ~s.isPlaying, wireframe |-> ~s.wireframe]

togglePlay(s) == [isPlaying |-> ~s.isPlaying]

\* Mutant of setAppMode: the orbit plot is left as it is.
setAppMode_keepPlot(mode) ==
    [appMode |-> mode, selectedPointId |-> "null", isAnalysisMode |-> FALSE]

setAppMode(mode) ==
    [appMode |-> mode, selectedPointId |-> "null",
     isOrbitPlotOpen |-> FALSE, isAnalysisMode |-> FALSE]

setAllPoints(newPoints) == [points |-> newPoints]

\* ------------------------------------------------------------ types.ts

ODSMode ==
    [Manual |-> "Manual Analysis",
     UnbalanceStatic |-> "Static Unbalance (Force)",
     UnbalanceCouple |-> "Couple Unbalance",
     UnbalanceDynamic |-> "Dynamic Unbalance (Most Common)",
     UnbalanceOverhung |-> "Overhung Rotor Unbalance",
     AngularMisalignment |-> "Angular Misalignment",
     ParallelMisalignment |-> "Parallel Misalignment",
     MisalignmentCombo |-> "Combined Misalignment",
     BentShaft |-> "Bent Shaft",
     EccentricRotor |-> "Eccentric Rotor (Var. Air Gap)",
     LoosenessStructural |-> "Structural Looseness (Type A)",
     LoosenessRocking |-> "Rocking Looseness (Type B)",
     LoosenessBearing |-> "Loose Bearing Fit (Type C)",
     SoftFoot |-> "Soft Foot (Distortion)",
     BearingWear |-> "Bearing Wear (Late Stage)",
     GearMesh |-> "Gear Mesh Issue (High Freq)",
     ResonanceVert |-> "Vertical Resonance"]

OrbitFault ==
    [Manual |-> "Manual Config",
     Unbalance |-> "Unbalance (1X Circle)",
     Misalignment |-> "Misalignment (Banana/Ellipse)",
     ShaftCrack |-> "Shaft Crack (1X + 2X Loop)",
     RotorBow |-> "Rotor Bow (High 1X)",
     OilWhirl |-> "Oil Whirl (0.4X - 0.48X)",
     OilWhip |-> "Oil Whip (Locked Sub-sync)",
     Preload |-> "Radial Preload (Flattened)",
     Rub |-> "Rub (Truncated/Bouncing)",
     Looseness |-> "Mechanical Looseness",
     Resonance |-> "Resonance (Phase Shift)"]

ODSModes == {ODSMode[f] : f \in DOMAIN ODSMode}
OrbitFaults == {OrbitFault[f] : f \in DOMAIN OrbitFault}

Harmonic(order, ratio, shift) ==
    [order |-> order, amplitudeRatio |-> ratio, phaseShift |-> shift]

\* ------------------------------------------------- store.ts: presets

\* String.prototype.includes on the sensor ids of the model, for the
\* substrings resetToMode tests.
Includes(id, sub) ==
    CASE sub = "m-" -> id \in {"m-foot-de-l", "m-foot-de-r", "m-foot-nde-l",
                               "m-foot-nde-r", "m-nde", "m-de"}
      [] sub = "foot" -> id \in {"m-foot-de-l", "m-foot-de-r", "m-foot-nde-l",
                                 "m-foot-nde-r"}
      [] sub = "foot-de" -> id \in {"m-foot-de-l", "m-foot-de-r"}
      [] sub = "nde" -> id \in {"m-foot-nde-l", "m-foot-nde-r", "m-nde", "p-nde"}
      [] OTHER -> FALSE

MapPoints(points, F(_)) == [i \in DOMAIN points |-> F(points[i])]

\* { ...c, f1: v1, ... }: the object spread of c overridden by the record over.
Spread(c, over) ==
    [f \in DOMAIN c \cup DOMAIN over |-> IF f \in DOMAIN over THEN over[f] ELSE c[f]]

\* Mutant of updateSoftFootPoints: the soft foot is also moved to the origin.
updateSoftFootPoints_moved(points, machineRpm, lineFreq) ==
    LET safeRpm == IF machineRpm = Zero THEN One ELSE machineRpm
        lfOrder == RDiv(RMul(RMul(I(2), lineFreq), I(60)), safeRpm)
        F(p) == IF p.id = "m-foot-de-r"
                THEN Spread(p, [position |-> <<Zero, Zero, Zero>>,
                                vertical |-> Spread(p.vertical,
                        [amplitude |-> I(6),
                         harmonics |-> <<Harmonic(lfOrder, R(12, 10), I(180))>>])])
                ELSE p
    IN  MapPoints(points, F)

updateSoftFootPoints(points, machineRpm, lineFreq) ==
    LET safeRpm == IF machineRpm = Zero THEN One ELSE machineRpm
        lfOrder == RDiv(RMul(RMul(I(2), lineFreq), I(60)), safeRpm)
        F(p) == IF p.id = "m-foot-de-r"
                THEN Spread(p, [vertical |-> Spread(p.vertical,
                        [amplitude |-> I(6),
                         harmonics |-> <<Harmonic(lfOrder, R(12, 10), I(180))>>])])
                ELSE p
    IN  MapPoints(points, F)

\* Math.abs(Math.sin(z / 2)) * 10 of resetToMode's ResonanceVert case, z in
\* radians, to three decimals, for the z coordinates of the model's sensors.
ResonanceAmp(z) ==
    CASE z = R(8, 10) -> R(3894, 1000)
      [] z = R(-8, 10) -> R(3894, 1000)
      [] z = One -> R(4794, 1000)
      [] z = R(55, 10) -> R(3817, 1000)
      [] z = R(65, 10) -> R(1082, 1000)

updateProbe(points, id, amp, phase, harmonics, noise) ==
    LET F(p) == IF p.id = id
                THEN Spread(p, [horizontal |-> Spread(p.horizontal,
                        [amplitude |-> amp, phase |-> phase,
                         harmonics |-> harmonics, noise |-> noise])])
                ELSE p
    IN  MapPoints(points, F)

\* updateProbe('probe-x', ...); updateProbe('probe-y', ...) with shared harmonics.
updateProbes(points, ampX, phX, ampY, phY, harmonics, noise) ==
    updateProbe(updateProbe(points, "probe-x", I(ampX), I(phX), harmonics, noise),
                "probe-y", I(ampY), I(phY), harmonics, noise)

resetOrbit(s, mode) ==
    LET baseAmp == I(10)
        Base(p) == IF p.id = "keyphasor" THEN p
                   ELSE Spread(p, [horizontal |-> Comp(baseAmp, Zero),
                                   vertical |-> Comp(Zero, Zero),
                                   axial |-> Comp(Zero, Zero)])
        base == MapPoints(s.orbitPoints, Base)
        newOrbitPoints ==
            CASE mode = OrbitFault.Unbalance ->
                    updateProbes(base, 40, 0, 40, 90, <<>>, Zero)
              [] mode = OrbitFault.Misalignment ->
                    updateProbes(base, 35, 0, 20, 120,
                        <<Harmonic(I(2), R(4, 10), I(45))>>, Zero)
              [] mode = OrbitFault.ShaftCrack ->
                    updateProbes(base, 35, 0, 35, 90,
                        <<Harmonic(I(2), R(5, 10), I(180))>>, Zero)
              [] mode = OrbitFault.RotorBow ->
                    updateProbes(base, 60, 0, 60, 90, <<>>, Zero)
              [] mode = OrbitFault.OilWhirl ->
                    updateProbes(base, 30, 0, 30, 90,
                        <<Harmonic(R(45, 100), R(8, 10), I(90))>>, Zero)
              [] mode = OrbitFault.OilWhip ->
                    updateProbes(base, 50, 0, 50, 90,
                        <<Harmonic(R(48, 100), R(15, 10), I(80))>>, Zero)
              [] mode = OrbitFault.Preload ->
                    updateProbes(base, 45, 0, 10, 90, <<>>, Zero)
              [] mode = OrbitFault.Rub ->
                    updateProbes(base, 30, 0, 30, 90,
                        <<Harmonic(R(5, 10), R(3, 10), Zero),
                          Harmonic(I(2), R(3, 10), I(180)),
                          Harmonic(I(3), R(2, 10), Zero)>>, I(10))
              [] mode = OrbitFault.Looseness ->
                    updateProbes(base, 25, 0, 30, 90,
                        <<Harmonic(I(2), R(5, 10), Zero),
                          Harmonic(I(3), R(3, 10), Zero),
                          Harmonic(I(4), R(2, 10), Zero)>>, Zero)
              [] mode = OrbitFault.Resonance ->
                    updateProbes(base, 80, 180, 80, 270, <<>>, Zero)
              [] OTHER -> base
    IN  [orbitPoints |-> newOrbitPoints, currentOrbitFault |-> mode]

\* { ...p.<axis>, amplitude: amp, phase: ph }
AmpPhase(c, amp, ph) == Spread(c, [amplitude |-> amp, phase |-> ph])

\* { amplitude, phase, harmonics }: a literal without a noise field.
CompH(amp, ph, harmonics) == [amplitude |-> amp, phase |-> ph, harmonics |-> harmonics]

odsPreset(p, odsMode) ==
    LET nde180 == IF Includes(p.id, "nde") THEN 180 ELSE 0
        h2(ratio) == <<Harmonic(I(2), ratio, Zero)>>
    IN
    CASE odsMode = ODSMode.UnbalanceStatic ->
            IF Includes(p.id, "m-") /\ ~Includes(p.id, "foot")
            THEN Spread(p, [horizontal |-> AmpPhase(p.horizontal, I(8), I(90)),
                            vertical |-> AmpPhase(p.vertical, R(75, 10), Zero)])
            ELSE p
      [] odsMode = ODSMode.UnbalanceCouple ->
            IF Includes(p.id, "m-") /\ ~Includes(p.id, "foot")
            THEN Spread(p, [horizontal |-> AmpPhase(p.horizontal, I(8), I(90 + nde180)),
                            vertical |-> AmpPhase(p.vertical, R(75, 10), I(0 + nde180))])
            ELSE p
      [] odsMode = ODSMode.UnbalanceDynamic ->
            IF p.id = "m-de"
            THEN Spread(p, [horizontal |-> AmpPhase(p.horizontal, I(8), I(30)),
                            vertical |-> AmpPhase(p.vertical, I(7), I(-60))])
            ELSE IF p.id = "m-nde"
            THEN Spread(p, [horizontal |-> AmpPhase(p.horizontal, I(6), I(150)),
                            vertical |-> AmpPhase(p.vertical, I(5), I(60))])
            ELSE p
      [] odsMode = ODSMode.UnbalanceOverhung ->
            IF p.id = "p-de"
            THEN Spread(p, [horizontal |-> AmpPhase(p.horizontal, I(8), I(90)),
                            vertical |-> AmpPhase(p.vertical, I(8), Zero),
                            axial |-> AmpPhase(p.axial, I(7), Zero)])
            ELSE IF p.id = "p-nde"
            THEN Spread(p, [axial |-> AmpPhase(p.axial, I(7), I(180))])
            ELSE p
      [] odsMode = ODSMode.AngularMisalignment ->
            IF p.id = "m-de" \/ p.id = "p-de"
            THEN Spread(p, [axial |->
                    [amplitude |-> I(9),
                     phase |-> IF p.id = "p-de" THEN I(180) ELSE Zero,
                     harmonics |-> h2(R(5, 10)), noise |-> Zero]])
            ELSE p
      [] odsMode = ODSMode.ParallelMisalignment ->
            IF p.id = "m-de"
            THEN Spread(p, [vertical |-> CompH(I(4), Zero, h2(R(15, 10))),
                            horizontal |-> CompH(I(3), I(90), h2(R(15, 10)))])
            ELSE IF p.id = "p-de"
            THEN Spread(p, [vertical |-> CompH(I(4), I(180), h2(R(15, 10))),
                            horizontal |-> CompH(I(3), I(270), h2(R(15, 10)))])
            ELSE p
      [] odsMode = ODSMode.MisalignmentCombo ->
            IF p.id = "m-de" \/ p.id = "p-de"
            THEN Spread(p, [vertical |-> CompH(I(5), Zero, h2(One)),
                            axial |-> CompH(I(5), Zero, h2(One))])
            ELSE p
      [] odsMode = ODSMode.BentShaft ->
            IF p.id = "m-de" \/ p.id = "m-nde"
            THEN Spread(p, [axial |-> AmpPhase(p.axial, I(8),
                                        IF p.id = "m-nde" THEN I(180) ELSE Zero),
                            vertical |-> AmpPhase(p.vertical, I(3), Zero)])
            ELSE p
      [] odsMode = ODSMode.EccentricRotor ->
            IF p.id = "m-de"
            THEN Spread(p, [vertical |-> CompH(I(8), Zero, h2(R(4, 10)))])
            ELSE p
      [] odsMode = ODSMode.LoosenessStructural ->
            IF Includes(p.id, "foot-de")
            THEN Spread(p, [vertical |-> CompH(I(10), Zero,
                    <<Harmonic(I(2), R(5, 10), Zero), Harmonic(I(3), R(3, 10), Zero)>>)])
            ELSE p
      [] odsMode = ODSMode.LoosenessRocking ->
            IF p.id = "m-de"
            THEN Spread(p, [horizontal |-> CompH(I(8), Zero,
                                <<Harmonic(I(2), R(6, 10), I(180))>>),
                            vertical |-> [amplitude |-> I(2), phase |-> I(90)]])
            ELSE p
      [] odsMode = ODSMode.LoosenessBearing ->
            IF p.id = "p-de"
            THEN Spread(p, [vertical |-> CompH(I(6), Zero,
                    <<Harmonic(R(5, 10), R(4, 10), Zero),
                      Harmonic(R(15, 10), R(3, 10), Zero),
                      Harmonic(I(2), R(5, 10), Zero),
                      Harmonic(I(3), R(4, 10), Zero)>>)])
            ELSE p
      [] odsMode = ODSMode.BearingWear ->
            IF p.id = "p-de"
            THEN Spread(p, [vertical |-> [amplitude |-> One, phase |-> Zero, noise |-> I(5)],
                            horizontal |-> [amplitude |-> One, phase |-> Zero, noise |-> I(5)]])
            ELSE p
      [] odsMode = ODSMode.GearMesh ->
            IF p.id = "p-de"
            THEN Spread(p, [vertical |-> CompH(R(5, 10), Zero,
                                <<Harmonic(I(12), I(8), Zero)>>)])
            ELSE p
      [] odsMode = ODSMode.ResonanceVert ->
            Spread(p, [vertical |-> Comp(ResonanceAmp(p.position[3]), I(90))])
      [] OTHER -> p

\* Mutant of resetODS: the preset is laid over the components held before.
resetODS_nobase(s, odsMode) ==
    LET Preset(p) == odsPreset(p, odsMode)
        newPoints == IF odsMode = ODSMode.SoftFoot
                     THEN updateSoftFootPoints(s.points, s.machineRpm, s.lineFreq)
                     ELSE MapPoints(s.points, Preset)
    IN  [points |-> newPoints, currentMode |-> odsMode]

resetODS(s, odsMode) ==
    LET Base(p) == Spread(p, [horizontal |-> Comp(R(3, 10), Zero),
                              vertical |-> Comp(R(2, 10), Zero),
                              axial |-> Comp(R(1, 10), Zero)])
        base == MapPoints(s.points, Base)
        Preset(p) == odsPreset(p, odsMode)
        newPoints == IF odsMode = ODSMode.SoftFoot
                     THEN updateSoftFootPoints(base, s.machineRpm, s.lineFreq)
                     ELSE MapPoints(base, Preset)
    IN  [points |-> newPoints, currentMode |-> odsMode]

\* Mutant of resetToMode: an orbit fault also resets the ODS mode.
resetToMode_both(s, mode) ==
    IF mode \in OrbitFaults
    THEN Spread(resetOrbit(s, mode), [currentMode |-> ODSMode.Manual])
    ELSE resetODS(s, mode)

resetToMode(s, mode) ==
    IF mode \in OrbitFaults THEN resetOrbit(s, mode) ELSE resetODS(s, mode)

\* Mutant of updatePoint: both rosters are mapped.
updatePoint_both(s, id, updates) ==
    LET F(p) == IF p.id = id THEN Spread(p, updates) ELSE p
    IN  [orbitPoints |-> MapPoints(s.orbitPoints, F), points |-> MapPoints(s.points, F)]

updatePoint(s, id, updates) ==
    LET isOrbitPoint == \E i \in DOMAIN s.orbitPoints : s.orbitPoints[i].id = id
        F(p) == IF p.id = id THEN Spread(p, updates) ELSE p
    IN  IF isOrbitPoint THEN [orbitPoints |-> MapPoints(s.orbitPoints, F)]
        ELSE [points |-> MapPoints(s.points, F)]

toggleOrbitPlot(s) == [isOrbitPlotOpen |-> ~s.isOrbitPlotOpen]

setReferencePoint_filter(s, id) ==
    LET IsRef(p) == p.id = id
    IN  [points |-> SelectSeq(s.points, IsRef), orbitPoints |-> SelectSeq(s.orbitPoints, IsRef)]

\* Mutant of setReferencePoint: the previous reference is not cleared.
setReferencePoint_additive(s, id) ==
    LET F(p) == Spread(p, [isReference |-> p.isReference \/ p.id = id])
    IN  [points |-> MapPoints(s.points, F), orbitPoints |-> MapPoints(s.orbitPoints, F)]

setReferencePoint(s, id) ==
    LET F(p) == Spread(p, [isReference |-> p.id = id])
    IN  [points |-> MapPoints(s.points, F), orbitPoints |-> MapPoints(s.orbitPoints, F)]

setMachineRpm(s, machineRpm) ==
    IF s.appMode = "ODS" /\ s.currentMode = ODSMode.SoftFoot
    THEN [machineRpm |-> machineRpm,
          points |-> updateSoftFootPoints(s.points, machineRpm, s.lineFreq)]
    ELSE [machineRpm |-> machineRpm]

setLineFreq(s, lineFreq) ==
    IF s.appMode = "ODS" /\ s.currentMode = ODSMode.SoftFoot
    THEN [lineFreq |-> lineFreq,
          points |-> updateSoftFootPoints(s.points, s.machineRpm, lineFreq)]
    ELSE [lineFreq |-> lineFreq]

ResetToMode(mode) ==
    /\ store' = Set(store, resetToMode(store, mode))
    /\ consumers' = Render(consumers, store')
    /\ lastOp' = [op |-> "resetToMode", mode |-> mode]
    /\ UNCHANGED runvars

KernelIdle ==
    /\ kin = [none |-> TRUE]
    /\ kpc = "idle"
    /\ kidx = 0
    /\ kacc = <<Zero, Zero, Zero>>
    /\ ktotal = Zero
    /\ klog = <<>>

\* No objects tracked.
NoSnap == [ref |-> 0, val |-> <<>>, seen |-> <<>>]
HeapIdle ==
    /\ heap = <<>>
    /\ roots = [points |-> 0, orbitPoints |-> 0]
    /\ snap = NoSnap

\* No calculateComponentDisplacement call and no OrbitWindow effect in progress.
ComponentIdle ==
    /\ ein = [none |-> TRUE]
    /\ epc = "idle"
    /\ eout = Zero

OrbitIdle ==
    /\ oin = [none |-> TRUE]
    /\ opc = "idle"
    /\ oidx = 0
    /\ opath = <<>>
    /\ odot = <<Zero, Zero>>

Tick(delta) ==
    /\ \A k \in ConsumerKeys : consumers[k].timeRef + delta <= MaxTime
    /\ consumers' = Frame(consumers, store, delta)
    /\ lastOp' = [op |-> "tick", delta |-> delta]
    /\ UNCHANGED <<store, runvars>>

\* The mesh ref is set and its geometry carries a position attribute from now on.
AttachRef(k) ==
    /\ consumers[k].mounted /\ ~consumers[k].ready
    /\ consumers' = [consumers EXCEPT ![k].ready = TRUE]
    /\ lastOp' = [op |-> "attachRef", key |-> k]
    /\ UNCHANGED <<store, runvars>>

TogglePlay ==
    /\ store' = Set(store, togglePlay(store))
    /\ consumers' = Render(consumers, store')
    /\ lastOp' = [op |-> "togglePlay",
                  before |-> store.isPlaying,
                  twice |-> lastOp.op = "togglePlay",
                  first |-> IF lastOp.op = "togglePlay" THEN lastOp.before
                            ELSE store.isPlaying]
    /\ UNCHANGED runvars

SetAppMode(mode) ==
    /\ store' = Set(store, setAppMode(mode))
    /\ consumers' = Render(consumers, store')
    /\ lastOp' = [op |-> "setAppMode", mode |-> mode]
    /\ UNCHANGED runvars

SetAllPoints(newPoints) ==
    /\ store' = Set(store, setAllPoints(newPoints))
    /\ consumers' = Render(consumers, store')
    /\ lastOp' = [op |-> "setAllPoints"]
    /\ UNCHANGED runvars

UpdatePoint(id, updates) ==
    /\ store' = Set(store, updatePoint(store, id, updates))
    /\ consumers' = Render(consumers, store')
    /\ lastOp' = [op |-> "updatePoint", id |-> id, updates |-> updates]
    /\ UNCHANGED runvars

SetReferencePoint(id) ==
    /\ store' = Set(store, setReferencePoint(store, id))
    /\ consumers' = Render(consumers, store')
    /\ lastOp' = [op |-> "setReferencePoint", id |-> id]
    /\ UNCHANGED runvars

SetMachineRpm(machineRpm) ==
    /\ store' = Set(store, setMachineRpm(store, machineRpm))
    /\ consumers' = Render(consumers, store')
    /\ lastOp' = [op |-> "setMachineRpm", machineRpm |-> machineRpm]
    /\ UNCHANGED runvars

SetLineFreq(lineFreq) ==
    /\ store' = Set(store, setLineFreq(store, lineFreq))
    /\ consumers' = Render(consumers, store')
    /\ lastOp' = [op |-> "setLineFreq", lineFreq |-> lineFreq]
    /\ UNCHANGED runvars

\* --------------------------------------------------------- specification

\* The presets the clock specification applies: one of each roster family.
ClockModes == {ODSMode.UnbalanceStatic, OrbitFault.Unbalance}

Init ==
    /\ store = InitialStore
    /\ \E r \in [MeshKeys -> BOOLEAN] :
         consumers = [k \in ConsumerKeys |->
                        IF k \in MeshKeys THEN Mounted(r[k])
                        ELSE IF k \in Ids(InitialStore.points) THEN Mounted(TRUE)
                        ELSE Unmounted]
    /\ lastOp = [op |-> "init"]
    /\ KernelIdle
    /\ ComponentIdle
    /\ OrbitIdle
    /\ HeapIdle

Next ==
    \/ \E newPoints \in {INITIAL_ODS_POINTS, ImportedPoints} : SetAllPoints(newPoints)
    \/ \E delta \in 0..MaxDelta : Tick(delta)
    \/ TogglePlay
    \/ \E mode \in {"ODS", "ORBIT"} : SetAppMode(mode)
    \/ \E mode \in ClockModes : ResetToMode(mode)
    \/ \E k \in MeshKeys : AttachRef(k)

Spec == Init /\ [][Next]_vars

\* ------------------------------------- specification of the store alone

\* The arguments the store actions are called with.
StoreModes == {ODSMode.SoftFoot, OrbitFault.Unbalance}
StoreRosters == {INITIAL_ODS_POINTS, ImportedPoints, CollidingPoints}
StoreRpms == {I(1480), Zero}
StoreLineFreqs == {I(60)}
StoreUpdateIds == {"m-nde", "probe-x", "none"}
StoreUpdates == {[horizontal |-> Comp(I(5), I(90))], [id |-> "m-de"]}
StoreReferenceIds == {"probe-y"}

InitStore ==
    /\ store = InitialStore
    /\ consumers = [k \in ConsumerKeys |->
                      IF k \in MeshKeys \/ k \in Ids(InitialStore.points)
                      THEN Mounted(TRUE) ELSE Unmounted]
    /\ lastOp = [op |-> "init"]
    /\ KernelIdle
    /\ ComponentIdle
    /\ OrbitIdle
    /\ HeapIdle

NextStore ==
    \/ \E newPoints \in StoreRosters : SetAllPoints(newPoints)
    \/ \E id \in StoreUpdateIds, updates \in StoreUpdates : UpdatePoint(id, updates)
    \/ \E id \in StoreReferenceIds : SetReferencePoint(id)
    \/ \E mode \in StoreModes : ResetToMode(mode)
    \/ \E machineRpm \in StoreRpms : SetMachineRpm(machineRpm)
    \/ \E lineFreq \in StoreLineFreqs : SetLineFreq(lineFreq)
    \/ \E mode \in {"ODS", "ORBIT"} : SetAppMode(mode)

SpecStore == InitStore /\ [][NextStore]_vars

\* ------------------------- specification of the soft-foot preset's inputs

\* The machine speeds and line frequencies the settings are given.
SoftFootRpms == {I(1480), I(3000), I(1500), Zero}
SoftFootLineFreqs == {I(50), I(60)}

NextSoftFoot ==
    \/ ResetToMode(ODSMode.SoftFoot)
    \/ \E machineRpm \in SoftFootRpms : SetMachineRpm(machineRpm)
    \/ \E lineFreq \in SoftFootLineFreqs : SetLineFreq(lineFreq)
    \/ \E mode \in {"ODS", "ORBIT"} : SetAppMode(mode)

SpecSoftFoot == InitStore /\ [][NextSoftFoot]_vars

\* ------------------------------------------------------------- odsMath

\* Math.sqrt, exact: defined where numerator and denominator are squares.
ISqrt(n) == CHOOSE r \in 0..n : r * r = n
IsSquare(n) == \E r \in 0..n : r * r = n
RSqrt(a) == [n |-> ISqrt(a.n), d |-> ISqrt(a.d)]
HasRSqrt(a) == a.n >= 0 /\ IsSquare(a.n) /\ IsSquare(a.d)

\* Math.sin for whole degrees 0..90, to three decimals, in units of 1/1000:
\* entry k + 1 is sin(k degrees).  Exact at 0, 30 and 90 degrees.
SinTable == <<
    0, 17, 35, 52, 70, 87, 105, 122, 139, 156,
    174, 191, 208, 225, 242, 259, 276, 292, 309, 326,
    342, 358, 375, 391, 407, 423, 438, 454, 469, 485,
    500, 515, 530, 545, 559, 574, 588, 602, 616, 629,
    643, 656, 669, 682, 695, 707, 719, 731, 743, 755,
    766, 777, 788, 799, 809, 819, 829, 839, 848, 857,
    866, 875, 883, 891, 899, 906, 914, 921, 927, 934,
    940, 946, 951, 956, 961, 966, 970, 974, 978, 982,
    985, 988, 990, 993, 995, 996, 998, 999, 999, 1000,
    1000 >>

\* Math.sin on the first quadrant: the table, interpolated linearly between
\* whole degrees.
SinQuadrant(x) ==
    LET k == x.n \div x.d
        f == RSub(x, I(k))
        lo == R(SinTable[k + 1], 1000)
    IN  IF f = Zero THEN lo
        ELSE RAdd(lo, RMul(f, RSub(R(SinTable[k + 2], 1000), lo)))

\* Math.sin of an angle given in degrees: reduced to one turn, then to the
\* first quadrant.  Exact at the multiples of 30 degrees whose sine is rational.
Sin(a) ==
    LET m == [n |-> a.n % (360 * a.d), d |-> a.d]
    IN  IF RLe(m, I(90)) THEN SinQuadrant(m)
        ELSE IF RLe(m, I(180)) THEN SinQuadrant(RSub(I(180), m))
        ELSE IF RLe(m, I(270)) THEN RSub(Zero, SinQuadrant(RSub(m, I(180))))
        ELSE RSub(Zero, SinQuadrant(RSub(I(360), m)))

HasField(c, f) == f \in DOMAIN c

\* JavaScript's x / y on numbers: 0/0 is NaN.
NaN == [n |-> 0, d |-> 0]
JsDiv(a, b) == IF b.n = 0 THEN NaN ELSE RDiv(a, b)

\* ---- number format.  The kernel claims are settled in exact arithmetic
\* (format 0).  A format p > 0 is binary floating point with a significand of
\* p bits, rounded to nearest, ties to even, exponent range unbounded: the
\* JavaScript number is p = 53.  The format applies to the arithmetic on val;
\* angles stay exact.

RECURSIVE Pow2(_)
Pow2(k) == IF k = 0 THEN 1 ELSE 2 * Pow2(k - 1)

\* The exponent e with 2^(p-1) <= y / 2^e < 2^p, for a rational y > 0.
RECURSIVE FlExponent(_, _)
FlExponent(y, p) ==
    IF y.n \div y.d >= Pow2(p) THEN FlExponent(RMul(y, R(1, 2)), p) + 1
    ELSE IF y.n \div y.d < Pow2(p - 1) THEN FlExponent(RMul(y, I(2)), p) - 1
    ELSE 0

\* The unit in the last place at exponent e.
FlUlp(e) == IF e >= 0 THEN I(Pow2(e)) ELSE R(1, Pow2(-e))

\* m + rest / d rounded to the nearest integer, the even one on a tie.
RoundHalfEven(m, rest, d) ==
    IF 2 * rest > d \/ (2 * rest = d /\ m % 2 = 1) THEN m + 1 ELSE m

\* The multiple of ulp nearest to a >= 0.
FlNearest(y, ulp) == RMul(I(RoundHalfEven(y.n \div y.d, y.n % y.d, y.d)), ulp)

FlScaled(a, ulp) == FlNearest(RDiv(a, ulp), ulp)

FlAbs(p, a) == FlScaled(a, FlUlp(FlExponent(a, p)))

\* x rounded to the format p.
Fl(p, x) ==
    IF p = 0 \/ x.n = 0 THEN x
    ELSE IF x.n < 0 THEN RSub(Zero, FlAbs(p, [n |-> -x.n, d |-> x.d]))
    ELSE FlAbs(p, x)

FAdd(p, a, b) == Fl(p, RAdd(a, b))
FMul(p, a, b) == Fl(p, RMul(a, b))

\* Math.sin(hAng) * (comp.amplitude * h.amplitudeRatio) of harmonic i.
HarmonicTerm(p, comp, omega, t, i) ==
    LET h == comp.harmonics[i]
        hOmega == RMul(omega, h.order)
        hAng == RAdd(RMul(hOmega, t), RAdd(comp.phase, h.phaseShift))
    IN  FMul(p, Fl(p, Sin(hAng)), FMul(p, comp.amplitude, h.amplitudeRatio))

\* Mutant of HarmonicLoop: val = ... instead of val += ...
RECURSIVE HarmonicLoop_assign(_, _, _, _, _, _)
HarmonicLoop_assign(p, val, comp, omega, t, i) ==
    IF i > Len(comp.harmonics) THEN val
    ELSE HarmonicLoop_assign(p, HarmonicTerm(p, comp, omega, t, i), comp, omega, t, i + 1)

\* The for loop over comp.harmonics, from index i on, entered with val:
\* val += term, in list order.
RECURSIVE HarmonicLoop(_, _, _, _, _, _)
HarmonicLoop(p, val, comp, omega, t, i) ==
    IF i > Len(comp.harmonics) THEN val
    ELSE HarmonicLoop(p, FAdd(p, val, HarmonicTerm(p, comp, omega, t, i)),
                      comp, omega, t, i + 1)

\* Mutant of NoiseTerm: the second sine at full weight (the factor 0.5 lost).
NoiseTerm_fullWeight(p, comp, omega, t) ==
    LET noiseFreq == RMul(omega, I(25))
        noiseVal == FAdd(p, Fl(p, Sin(RMul(noiseFreq, t))),
                         Fl(p, Sin(RMul(RMul(noiseFreq, R(13, 10)), t))))
    IN  FMul(p, noiseVal, comp.noise)

\* (Math.sin(noiseFreq * t) + 0.5 * Math.sin(noiseFreq * 1.3 * t)) * comp.noise
NoiseTerm(p, comp, omega, t) ==
    LET noiseFreq == RMul(omega, I(25))
        noiseVal == FAdd(p, Fl(p, Sin(RMul(noiseFreq, t))),
                         FMul(p, R(1, 2), Fl(p, Sin(RMul(RMul(noiseFreq, R(13, 10)), t)))))
    IN  FMul(p, noiseVal, comp.noise)

\* Mutant of calculateComponentDisplacementFl: the noise guard dropped, so
\* that an absent noise field (undefined) enters the product.
calculateComponentDisplacementFl_unguarded(p, comp, omega, t, globalGain, scalar) ==
    LET ang1 == RAdd(RMul(omega, t), comp.phase)
        val1 == FMul(p, Fl(p, Sin(ang1)), comp.amplitude)
        val2 == IF HasField(comp, "harmonics") /\ Len(comp.harmonics) > 0
                THEN HarmonicLoop(p, val1, comp, omega, t, 1)
                ELSE val1
    IN  IF HasField(comp, "noise")
        THEN FMul(p, FMul(p, FAdd(p, val2, NoiseTerm(p, comp, omega, t)), globalGain), scalar)
        ELSE NaN

\* calculateComponentDisplacement in the number format p.
calculateComponentDisplacementFl(p, comp, omega, t, globalGain, scalar) ==
    LET ang1 == RAdd(RMul(omega, t), comp.phase)
        val1 == FMul(p, Fl(p, Sin(ang1)), comp.amplitude)
        val2 == IF HasField(comp, "harmonics") /\ Len(comp.harmonics) > 0
                THEN HarmonicLoop(p, val1, comp, omega, t, 1)
                ELSE val1
        val3 == IF HasField(comp, "noise") /\ RLt(Zero, comp.noise)
                THEN FAdd(p, val2, NoiseTerm(p, comp, omega, t))
                ELSE val2
    IN  FMul(p, FMul(p, val3, globalGain), scalar)

\* calculateComponentDisplacement in exact arithmetic.
calculateComponentDisplacement(comp, omega, t, globalGain, scalar) ==
    calculateComponentDisplacementFl(0, comp, omega, t, globalGain, scalar)

\* omega = (animationRpm * 2 * Math.PI) / 60, in degrees per second.
Omega(animationRpm) == RDiv(RMul(animationRpm, I(360)), I(60))

SCALAR == R(15, 1000)

\* dist = Math.sqrt(dx*dx + dy*dy + dz*dz)
DistSq(x, y, z, p) ==
    LET dx == RSub(x, p.position[1])
        dy == RSub(y, p.position[2])
        dz == RSub(z, p.position[3])
    IN  RAdd(RAdd(RMul(dx, dx), RMul(dy, dy)), RMul(dz, dz))

Dist(x, y, z, p) == RSqrt(DistSq(x, y, z, p))


\* Mutant of Pow35: the exponent lost, Math.pow(dist, 0).
Pow35_flat(dist) == One

\* Math.pow(dist, power) with power = 3.5: dist^3 * sqrt(dist)
Pow35(dist) == RMul(RMul(RMul(dist, dist), dist), RSqrt(dist))


\* Mutant of Weight: an influence radius that drops sensors farther than 1.
Weight_cutoff(dist) ==
    IF RLt(One, dist) THEN Zero ELSE RDiv(One, RAdd(Pow35(dist), R(1, 10)))

\* weight = 1.0 / (Math.pow(dist, power) + 0.1)
Weight(dist) == RDiv(One, RAdd(Pow35(dist), R(1, 10)))

\* One iteration of the loop over points: the contribution of sensor p.
Contribution(x, y, z, t, omega, p, globalGain) ==
    LET dist == Dist(x, y, z, p)
    IN  [dist |-> dist,
         weight |-> Weight(dist),
         magH |-> calculateComponentDisplacement(p.horizontal, omega, t, globalGain, SCALAR),
         magV |-> calculateComponentDisplacement(p.vertical, omega, t, globalGain, SCALAR),
         magA |-> calculateComponentDisplacement(p.axial, omega, t, globalGain, SCALAR)]


\* Mutant of Accumulate: the magnitudes added without their weight.
Accumulate_unweighted(acc, c) ==
    <<RAdd(acc[1], c.magH), RAdd(acc[2], c.magV), RAdd(acc[3], c.magA)>>

\* displacement.x += magH * weight; ... ; totalWeight += weight
Accumulate(acc, c) ==
    <<RAdd(acc[1], RMul(c.magH, c.weight)),
      RAdd(acc[2], RMul(c.magV, c.weight)),
      RAdd(acc[3], RMul(c.magA, c.weight))>>


\* Mutants of Finish: the division unguarded; the division left out.
Finish_unguarded(acc, total) ==
    <<JsDiv(acc[1], total), JsDiv(acc[2], total), JsDiv(acc[3], total)>>
Finish_sum(acc, total) == acc

\* if (totalWeight > 0) displacement.divideScalar(totalWeight); return displacement
Finish(acc, total) ==
    IF RLt(Zero, total)
    THEN <<JsDiv(acc[1], total), JsDiv(acc[2], total), JsDiv(acc[3], total)>>
    ELSE acc

\* ---------------------------------------------- one kernel call, stepwise

KernelEnter ==
    /\ kpc = "call"
    /\ kpc' = "loop"
    /\ kidx' = 1
    /\ kacc' = <<Zero, Zero, Zero>>
    /\ ktotal' = Zero
    /\ klog' = <<>>
    /\ lastOp' = [op |-> "kernelEnter"]
    /\ UNCHANGED <<store, consumers, hvars, kin, evars, ovars>>

\* Mutant of KernelIter: the weight cached on the sensor object (p.weight = weight).
KernelIter_caching ==
    /\ kpc = "loop"
    /\ kidx <= Len(kin.points)
    /\ LET c == Contribution(kin.x, kin.y, kin.z, kin.t, Omega(kin.animationRpm),
                             kin.points[kidx], kin.globalGain)
       IN  /\ kacc' = Accumulate(kacc, c)
           /\ ktotal' = RAdd(ktotal, c.weight)
           /\ klog' = Append(klog, c)
           /\ kin' = [kin EXCEPT !.points[kidx] = Spread(@, [weight |-> c.weight])]
    /\ kidx' = kidx + 1
    /\ lastOp' = [op |-> "kernelIter"]
    /\ UNCHANGED <<store, consumers, hvars, kpc, evars, ovars>>

KernelIter ==
    /\ kpc = "loop"
    /\ kidx <= Len(kin.points)
    /\ LET c == Contribution(kin.x, kin.y, kin.z, kin.t, Omega(kin.animationRpm),
                             kin.points[kidx], kin.globalGain)
       IN  /\ kacc' = Accumulate(kacc, c)
           /\ ktotal' = RAdd(ktotal, c.weight)
           /\ klog' = Append(klog, c)
    /\ kidx' = kidx + 1
    /\ lastOp' = [op |-> "kernelIter"]
    /\ UNCHANGED <<store, consumers, hvars, kin, kpc, evars, ovars>>

KernelReturn ==
    /\ kpc = "loop"
    /\ kidx > Len(kin.points)
    /\ kacc' = Finish(kacc, ktotal)
    /\ kpc' = "done"
    /\ lastOp' = [op |-> "kernelReturn"]
    /\ UNCHANGED <<store, consumers, hvars, kin, kidx, ktotal, klog, evars, ovars>>

\* ------------------------------------------------ kernel inputs drawn

H(n) == R(n, 2)

\* Two sensors' worth of components: every optional field present, and
\* literals that leave harmonics or noise out.
ProfileA ==
    [horizontal |-> Comp(I(2), I(90)),
     vertical |-> Comp(One, I(30)),
     axial |-> Comp(Zero, Zero)]
ProfileB ==
    [horizontal |-> [amplitude |-> One, phase |-> I(90),
                     harmonics |-> <<Harmonic(I(2), H(1), Zero)>>, noise |-> One],
     vertical |-> [amplitude |-> I(2), phase |-> I(30)],
     axial |-> [amplitude |-> I(3), phase |-> I(270), harmonics |-> <<>>]]
Profiles == {ProfileA, ProfileB}

KPositions ==
    {<<Zero, Zero, Zero>>, <<One, Zero, Zero>>, <<Zero, Zero, I(4)>>,
     <<Zero, R(1, 4), Zero>>, <<One, I(4), Zero>>, <<I(2), Zero, Zero>>,
     <<One, Zero, R(-1, 4)>>}
KQueries == {<<Zero, Zero, Zero>>, <<One, Zero, Zero>>}

KSensor(pos, prof) ==
    [id |-> "s", label |-> "Sensor", position |-> pos,
     horizontal |-> prof.horizontal, vertical |-> prof.vertical,
     axial |-> prof.axial, isReference |-> FALSE]

\* The sensors whose distance to q, and its power 3.5, are rational.
KSensors(q) ==
    {KSensor(pos, prof) : pos \in {v \in KPositions :
            LET dsq == DistSq(q[1], q[2], q[3], [position |-> v])
            IN  HasRSqrt(dsq) /\ HasRSqrt(RSqrt(dsq))},
        prof \in Profiles}

RECURSIVE SeqsUpTo(_, _)
SeqsUpTo(S, n) ==
    IF n = 0 THEN {<<>>}
    ELSE LET shorter == SeqsUpTo(S, n - 1)
         IN  shorter \cup {Append(q, e) : q \in shorter, e \in S}

KernelInputs ==
    UNION {[x : {q[1]}, y : {q[2]}, z : {q[3]},
            t : {Zero, One}, animationRpm : {I(30), I(60)},
            points : SeqsUpTo(KSensors(q), MaxSensors),
            globalGain : {One, I(10)}] : q \in KQueries}

InitKernel ==
    /\ store = InitialStore
    /\ consumers = [k \in ConsumerKeys |->
                      IF k \in MeshKeys \/ k \in Ids(InitialStore.points)
                      THEN Mounted(TRUE) ELSE Unmounted]
    /\ lastOp = [op |-> "init"]
    /\ kin \in KernelInputs
    /\ kpc = "call"
    /\ kidx = 0
    /\ kacc = <<Zero, Zero, Zero>>
    /\ ktotal = Zero
    /\ klog = <<>>
    /\ ComponentIdle
    /\ OrbitIdle
    /\ HeapIdle

NextKernel == KernelEnter \/ KernelIter \/ KernelReturn

SpecKernel == InitKernel /\ [][NextKernel]_vars

\* --------------------------------- one component evaluation, as one step

ComponentCall ==
    /\ epc = "call"
    /\ eout' = calculateComponentDisplacementFl(ein.format, ein.comp, ein.omega, ein.t,
                                                 ein.globalGain, ein.scalar)
    /\ epc' = "done"
    /\ lastOp' = [op |-> "componentCall"]
    /\ UNCHANGED <<store, consumers, hvars, ein, kvars, ovars>>

\* --------------------------------------------- component inputs drawn

HarmonicChoices ==
    {Harmonic(One, One, I(180)), Harmonic(One, R(1, 512), Zero),
     Harmonic(I(2), R(1, 2), Zero)}

\* Components with every optional field present, and literals that leave
\* harmonics, noise or both out.
ComponentInputs ==
    [amplitude : {Zero, One}, phase : {Zero, I(90)},
     harmonics : SeqsUpTo(HarmonicChoices, MaxHarmonics), noise : {Zero, One}]
    \cup [amplitude : {Zero, One}, phase : {Zero, I(90)}]
    \cup [amplitude : {Zero, One}, phase : {Zero, I(90)}, harmonics : {<<>>}]
    \cup [amplitude : {Zero, One}, phase : {Zero, I(90)}, noise : {Zero, One}]

\* (omega, t): omega * t is 0, 3.6, 90 and 180 degrees.
ComponentTimes ==
    {<<One, Zero>>, <<One, R(18, 5)>>, <<I(360), R(1, 4)>>, <<I(180), One>>}

ComponentCalls ==
    UNION {[comp : ComponentInputs, omega : {ot[1]}, t : {ot[2]},
            globalGain : {gs[1]}, scalar : {gs[2]}, format : {0, SigBits}] :
           ot \in ComponentTimes, gs \in {<<One, One>>, <<I(10), SCALAR>>}}

InitComponent ==
    /\ store = InitialStore
    /\ consumers = [k \in ConsumerKeys |->
                      IF k \in MeshKeys \/ k \in Ids(InitialStore.points)
                      THEN Mounted(TRUE) ELSE Unmounted]
    /\ lastOp = [op |-> "init"]
    /\ KernelIdle
    /\ OrbitIdle
    /\ HeapIdle
    /\ ein \in ComponentCalls
    /\ epc = "call"
    /\ eout = Zero

NextComponent == ComponentCall

SpecComponent == InitComponent /\ [][NextComponent]_vars

\* ------------------------------------------- OrbitWindow.tsx: the plot

\* const points = 720, numCycles = 2; <canvas width={400} height={400}>
PlotPoints == 720
numCycles == 2
width == 400
height == 400
centerX == R(width, 2)
centerY == R(height, 2)

\* duration = numCycles * 2 * Math.PI, in degrees.
duration == I(numCycles * 360)

Undefined == [undefined |-> TRUE]

\* orbitPoints.find(p => p.id === id)
Find(orbitPoints, id) ==
    IF \E i \in DOMAIN orbitPoints : orbitPoints[i].id = id
    THEN orbitPoints[CHOOSE i \in DOMAIN orbitPoints :
            /\ orbitPoints[i].id = id
            /\ \A j \in DOMAIN orbitPoints : orbitPoints[j].id = id => i <= j]
    ELSE Undefined

\* orbitPoints.find(...)?.horizontal
probeOf(orbitPoints, id) ==
    LET pt == Find(orbitPoints, id)
    IN  IF pt = Undefined THEN Undefined ELSE pt.horizontal

\* kpTime = 0 - kpRad, with kpRad = (kp?.horizontal.phase || 0) * PI / 180: in degrees.
kpTime(orbitPoints) ==
    LET kp == Find(orbitPoints, "keyphasor")
    IN  IF kp = Undefined THEN Zero ELSE RSub(Zero, kp.horizontal.phase)

RECURSIVE PeakHarmonics(_, _)
PeakHarmonics(comp, i) ==
    IF i > Len(comp.harmonics) THEN Zero
    ELSE RAdd(RMul(comp.amplitude, comp.harmonics[i].amplitudeRatio),
              PeakHarmonics(comp, i + 1))

\* Mutant of getPeakAmp: the fundamental only, harmonics and noise left out.
getPeakAmp_fundamental(comp) == comp.amplitude

getPeakAmp(comp) ==
    LET peak1 == IF HasField(comp, "harmonics")
                 THEN RAdd(comp.amplitude, PeakHarmonics(comp, 1))
                 ELSE comp.amplitude
    IN  IF HasField(comp, "noise") /\ comp.noise # Zero
        THEN RAdd(peak1, comp.noise) ELSE peak1

RMax(a, b) == IF RLt(a, b) THEN b ELSE a

\* maxAmp = Math.max(getPeakAmp(probeX), getPeakAmp(probeY)) * 1.5
maxAmp(probeX, probeY) == RMul(RMax(getPeakAmp(probeX), getPeakAmp(probeY)), R(3, 2))

\* Mutant of scale: the divisor is maxAmp itself.
scale_nofallback(probeX, probeY) ==
    JsDiv(RMul(I(width), R(4, 10)), maxAmp(probeX, probeY))

\* scale = (width * 0.4) / (maxAmp || 1)
scale(probeX, probeY) ==
    LET m == maxAmp(probeX, probeY)
    IN  RDiv(RMul(I(width), R(4, 10)), IF m = Zero THEN One ELSE m)

RECURSIVE calcHarmonics(_, _, _)
calcHarmonics(comp, t, i) ==
    IF i > Len(comp.harmonics) THEN Zero
    ELSE LET h == comp.harmonics[i]
         IN  RAdd(RMul(RMul(comp.amplitude, h.amplitudeRatio),
                       Sin(RAdd(RMul(t, h.order), RAdd(comp.phase, h.phaseShift)))),
                  calcHarmonics(comp, t, i + 1))

\* calcVal(comp, t): t is the angle, carried in degrees.
calcVal(comp, t) ==
    LET v == RMul(comp.amplitude, Sin(RAdd(t, comp.phase)))
    IN  IF HasField(comp, "harmonics") THEN RAdd(v, calcHarmonics(comp, t, 1)) ELSE v

\* Mutant of LoopContinues: i < points.
LoopContinues_exclusive(i) == i < PlotPoints

\* The condition of the sampling loop: i <= points.
LoopContinues(i) == i <= PlotPoints

\* The effect's entry: it returns at once unless the window is open and both
\* probes exist (the canvas and its 2d context exist whenever the window is open).
OrbitEffectEnter ==
    /\ opc = "effect"
    /\ IF ~oin.isOrbitPlotOpen
          \/ probeOf(oin.orbitPoints, "probe-x") = Undefined
          \/ probeOf(oin.orbitPoints, "probe-y") = Undefined
       THEN opc' = "done" /\ oidx' = oidx
       ELSE opc' = "loop" /\ oidx' = 0
    /\ lastOp' = [op |-> "orbitEffectEnter"]
    /\ UNCHANGED <<store, consumers, hvars, kvars, evars, oin, opath, odot>>

\* One iteration of the sampling loop: moveTo / lineTo of sample i.
OrbitSample ==
    /\ opc = "loop"
    /\ LoopContinues(oidx)
    /\ LET probeX == probeOf(oin.orbitPoints, "probe-x")
           probeY == probeOf(oin.orbitPoints, "probe-y")
           t == RMul(R(oidx, PlotPoints), duration)
           valX == calcVal(probeX, t)
           valY == calcVal(probeY, t)
           px == RAdd(centerX, RMul(valX, scale(probeX, probeY)))
           py == RSub(centerY, RMul(valY, scale(probeX, probeY)))
       IN  opath' = Append(opath, [t |-> t, valX |-> valX, valY |-> valY,
                                   px |-> px, py |-> py])
    /\ oidx' = oidx + 1
    /\ lastOp' = [op |-> "orbitSample"]
    /\ UNCHANGED <<store, consumers, hvars, kvars, evars, oin, opc, odot>>

\* After the loop: the keyphasor dot.
OrbitDot ==
    /\ opc = "loop"
    /\ ~LoopContinues(oidx)
    /\ LET probeX == probeOf(oin.orbitPoints, "probe-x")
           probeY == probeOf(oin.orbitPoints, "probe-y")
           kpt == kpTime(oin.orbitPoints)
       IN  odot' = <<RAdd(centerX, RMul(calcVal(probeX, kpt), scale(probeX, probeY))),
                     RSub(centerY, RMul(calcVal(probeY, kpt), scale(probeX, probeY)))>>
    /\ opc' = "done"
    /\ lastOp' = [op |-> "orbitDot"]
    /\ UNCHANGED <<store, consumers, hvars, kvars, evars, oin, oidx, opath>>

\* ------------------------------------------------- orbit inputs drawn

\* The store after resetToMode(fault), updatePoint of the keyphasor's phase
\* and toggleOrbitPlot.
OrbitStore(fault, kpPhase, open) ==
    LET s1 == Set(InitialStore, resetToMode(InitialStore, fault))
        kp == Find(s1.orbitPoints, "keyphasor")
        s2 == Set(s1, updatePoint(s1, "keyphasor",
                    [horizontal |-> Spread(kp.horizontal, [phase |-> kpPhase])]))
    IN  IF open THEN Set(s2, toggleOrbitPlot(s2)) ELSE s2

\* Both probes edited to amplitude 0.
ZeroProbesStore ==
    LET s1 == Set(InitialStore, updatePoint(InitialStore, "probe-x",
                    [horizontal |-> Comp(Zero, Zero)]))
        s2 == Set(s1, updatePoint(s1, "probe-y", [horizontal |-> Comp(Zero, I(90))]))
    IN  Set(s2, toggleOrbitPlot(s2))

OrbitFaultInputs ==
    {OrbitFault.Unbalance, OrbitFault.Misalignment, OrbitFault.OilWhirl,
     OrbitFault.OilWhip, OrbitFault.Rub}

OrbitStores ==
    {OrbitStore(f, kpPhase, TRUE) : f \in OrbitFaultInputs, kpPhase \in {Zero, I(90)}}
    \cup {OrbitStore(OrbitFault.Unbalance, Zero, FALSE), ZeroProbesStore}

InitOrbit ==
    /\ store \in OrbitStores
    /\ consumers = [k \in ConsumerKeys |->
                      IF k \in MeshKeys \/ k \in Ids(InitialStore.points)
                      THEN Mounted(TRUE) ELSE Unmounted]
    /\ lastOp = [op |-> "init"]
    /\ KernelIdle
    /\ ComponentIdle
    /\ HeapIdle
    /\ oin = [isOrbitPlotOpen |-> store.isOrbitPlotOpen, orbitPoints |-> store.orbitPoints,
              animationRpm |-> store.animationRpm, appMode |-> store.appMode]
    /\ opc = "effect"
    /\ oidx = 0
    /\ opath = <<>>
    /\ odot = <<Zero, Zero>>

NextOrbit == OrbitEffectEnter \/ OrbitSample \/ OrbitDot

SpecOrbit == InitOrbit /\ [][NextOrbit]_vars

\* ------------------------------ one store action, applied and applied again

\* The partial state a store action hands to set, for a call record.
Partial(s, call) ==
    CASE call.op = "resetToMode" -> resetToMode(s, call.mode)
      [] call.op = "setMachineRpm" -> setMachineRpm(s, call.machineRpm)
      [] call.op = "setLineFreq" -> setLineFreq(s, call.lineFreq)
      [] call.op = "setReferencePoint" -> setReferencePoint(s, call.id)
      [] call.op = "updatePoint" -> updatePoint(s, call.id, call.updates)
      [] call.op = "setAllPoints" -> setAllPoints(call.newPoints)
      [] call.op = "setAppMode" -> setAppMode(call.mode)

Apply(s, call) == Set(s, Partial(s, call))

EditedComponent ==
    [amplitude |-> I(7), phase |-> I(45),
     harmonics |-> <<Harmonic(I(3), R(1, 4), I(30))>>, noise |-> I(2)]

\* States of the store the calls are applied to, each by the calls that reach it.
PreSoftFoot == Apply(InitialStore, [op |-> "resetToMode", mode |-> ODSMode.SoftFoot])
PreEdited ==
    Apply(Apply(Apply(Apply(InitialStore,
        [op |-> "updatePoint", id |-> "m-foot-de-r", updates |-> [vertical |-> EditedComponent]]),
        [op |-> "updatePoint", id |-> "keyphasor", updates |-> [horizontal |-> Comp(I(5), I(90))]]),
        [op |-> "updatePoint", id |-> "probe-x", updates |-> [horizontal |-> EditedComponent]]),
        [op |-> "setReferencePoint", id |-> "m-nde"])
PreOrbit ==
    Apply(Apply(Apply(InitialStore,
        [op |-> "setAppMode", mode |-> "ORBIT"]),
        [op |-> "resetToMode", mode |-> OrbitFault.Rub]),
        [op |-> "setMachineRpm", machineRpm |-> I(3000)])
PreImported == Apply(InitialStore, [op |-> "setAllPoints", newPoints |-> ImportedPoints])
PreColliding == Apply(InitialStore, [op |-> "setAllPoints", newPoints |-> CollidingPoints])
PreDuplicate ==
    Apply(InitialStore, [op |-> "updatePoint", id |-> "m-nde", updates |-> [id |-> "m-de"]])

PreStores ==
    {InitialStore, PreSoftFoot, PreEdited, PreOrbit, PreImported, PreColliding, PreDuplicate}

\* The calls applied.
StoreCalls ==
    {[op |-> "resetToMode", mode |-> m] : m \in ODSModes \cup OrbitFaults}
    \cup {[op |-> "setMachineRpm", machineRpm |-> r] : r \in {Zero, I(1480), I(3000)}}
    \cup {[op |-> "setLineFreq", lineFreq |-> f] : f \in {I(50), I(60)}}
    \cup {[op |-> "setReferencePoint", id |-> id] :
                id \in {"m-de", "m-nde", "probe-x", "keyphasor", "none"}}
    \cup {[op |-> "updatePoint", id |-> id, updates |-> u] :
                id \in {"m-de", "m-foot-de-r", "probe-x", "none"},
                u \in {[horizontal |-> EditedComponent], [isReference |-> TRUE]}}

\* The call is applied to the store: for the first time, then once more.
StoreApply ==
    /\ "call" \in DOMAIN lastOp
    /\ lastOp.applied < 2
    /\ store' = Apply(store, lastOp.call)
    /\ consumers' = Render(consumers, store')
    /\ lastOp' = [op |-> lastOp.op, call |-> lastOp.call, before |-> lastOp.before,
                  once |-> IF lastOp.applied = 0 THEN store' ELSE lastOp.once,
                  applied |-> lastOp.applied + 1]
    /\ UNCHANGED runvars

InitCall ==
    /\ store \in PreStores
    /\ consumers = Render([k \in ConsumerKeys |-> IF k \in MeshKeys THEN Mounted(TRUE)
                                                  ELSE Unmounted], store)
    /\ \E call \in StoreCalls :
            lastOp = [op |-> call.op, call |-> call, before |-> store,
                      once |-> store, applied |-> 0]
    /\ KernelIdle
    /\ ComponentIdle
    /\ OrbitIdle
    /\ HeapIdle

NextCall == StoreApply

SpecCall == InitCall /\ [][NextCall]_vars

\* ------------------------------- the rosters as objects a consumer can hold

\* The most objects allocated in one run.
MaxObjects == 24

\* A sensor object and an array of sensor objects.
Obj(val) == [kind |-> "object", val |-> val]
Arr(items) == [kind |-> "array", items |-> items]

\* The roster read through the array at address a.
Deref(h, a) == [i \in DOMAIN h[a].items |-> h[h[a].items[i]].val]

\* The objects and the array the literals of store.ts:14-35 allocate.
Literal(h, points) ==
    h \o [i \in DOMAIN points |-> Obj(points[i])]
      \o <<Arr([i \in DOMAIN points |-> Len(h) + i])>>

\* Array.prototype.map with a callback that returns a new object for the
\* indices in fresh and its argument for the others: the new objects, then
\* the new array, appended to the heap.
Rank(fresh, i) == Cardinality({j \in fresh : j <= i})
Nth(fresh, k) == CHOOSE i \in fresh : Rank(fresh, i) = k
NewArray(h, old, vals, fresh) ==
    h \o [k \in 1..Cardinality(fresh) |-> Obj(vals[Nth(fresh, k)])]
      \o <<Arr([i \in DOMAIN vals |->
                IF i \in fresh THEN Len(h) + Rank(fresh, i) ELSE old[i]])>>

\* The indices of roster s[key] for which the action's callbacks build a new
\* object; for setAllPoints, the caller's array.
FreshIn(s, call, key) ==
    CASE call.op = "updatePoint" -> {i \in DOMAIN s[key] : s[key][i].id = call.id}
      [] call.op = "setReferencePoint" -> DOMAIN s[key]
      [] call.op = "resetToMode" ->
            IF key = "orbitPoints"
            THEN {i \in DOMAIN s[key] : s[key][i].id # "keyphasor"}
            ELSE DOMAIN s[key]
      [] call.op \in {"setMachineRpm", "setLineFreq"} ->
            {i \in DOMAIN s[key] : s[key][i].id = "m-foot-de-r"}
      [] call.op = "setAllPoints" -> DOMAIN call.newPoints
      [] OTHER -> {}

\* Mutant of Replace: the objects of the roster are written in place.
Replace_inplace(hr, s, call, key) ==
    IF key \in DOMAIN Partial(s, call)
          /\ Len(Partial(s, call)[key]) = Len(hr.heap[hr.roots[key]].items)
    THEN [heap |-> [a \in DOMAIN hr.heap |->
                      IF \E i \in DOMAIN s[key] : hr.heap[hr.roots[key]].items[i] = a
                      THEN Obj(Partial(s, call)[key]
                                [CHOOSE i \in DOMAIN s[key] : hr.heap[hr.roots[key]].items[i] = a])
                      ELSE hr.heap[a]],
          roots |-> hr.roots]
    ELSE hr

\* set(partial) for one roster: if the partial state carries the key, the
\* store holds the newly built array from then on.
Replace(hr, s, call, key) ==
    IF key \in DOMAIN Partial(s, call)
    THEN [heap |-> NewArray(hr.heap, hr.heap[hr.roots[key]].items,
                            Partial(s, call)[key], FreshIn(s, call, key)),
          roots |-> [hr.roots EXCEPT ![key] =
                        Len(hr.heap) + Cardinality(FreshIn(s, call, key)) + 1]]
    ELSE hr

HeapSet(hr, s, call) == Replace(Replace(hr, s, call, "points"), s, call, "orbitPoints")

\* The calls applied to the object model.
SnapshotCalls ==
    {[op |-> "updatePoint", id |-> "m-de", updates |-> [horizontal |-> EditedComponent]],
     [op |-> "setReferencePoint", id |-> "m-nde"],
     [op |-> "resetToMode", mode |-> ODSMode.SoftFoot],
     [op |-> "resetToMode", mode |-> OrbitFault.Rub],
     [op |-> "setMachineRpm", machineRpm |-> I(3000)],
     [op |-> "setAllPoints", newPoints |-> ImportedPoints],
     [op |-> "setAppMode", mode |-> "ORBIT"]}

\* One store action.
SnapshotCall ==
    \E call \in SnapshotCalls :
        /\ Len(HeapSet([heap |-> heap, roots |-> roots], store, call).heap) <= MaxObjects
        /\ store' = Apply(store, call)
        /\ heap' = HeapSet([heap |-> heap, roots |-> roots], store, call).heap
        /\ roots' = HeapSet([heap |-> heap, roots |-> roots], store, call).roots
        /\ consumers' = Render(consumers, store')
        /\ lastOp' = [op |-> call.op]
        /\ UNCHANGED <<snap, kvars, evars, ovars>>

\* A consumer renders: it takes state.points as it is now (Vectors.tsx:12).
Capture ==
    /\ snap.ref # roots.points
    /\ snap' = [ref |-> roots.points, val |-> Deref(heap, roots.points), seen |-> <<>>]
    /\ lastOp' = [op |-> "capture"]
    /\ UNCHANGED <<store, consumers, heap, roots, kvars, evars, ovars>>

\* The evaluation the consumer's frame callback runs reads the next sensor
\* of the roster it holds.
ReadSensor ==
    /\ snap.ref # 0
    /\ Len(snap.seen) < Len(heap[snap.ref].items)
    /\ snap' = [snap EXCEPT !.seen =
                    Append(@, heap[heap[snap.ref].items[Len(snap.seen) + 1]].val)]
    /\ lastOp' = [op |-> "read"]
    /\ UNCHANGED <<store, consumers, heap, roots, kvars, evars, ovars>>

\* The evaluation returns; the next frame starts another on the same roster.
NextFrame ==
    /\ snap.ref # 0
    /\ Len(snap.seen) = Len(heap[snap.ref].items)
    /\ snap' = [snap EXCEPT !.seen = <<>>]
    /\ lastOp' = [op |-> "frame"]
    /\ UNCHANGED <<store, consumers, heap, roots, kvars, evars, ovars>>

InitSnapshot ==
    /\ store = InitialStore
    /\ consumers = [k \in ConsumerKeys |->
                      IF k \in MeshKeys \/ k \in Ids(InitialStore.points)
                      THEN Mounted(TRUE) ELSE Unmounted]
    /\ lastOp = [op |-> "init"]
    /\ heap = Literal(Literal(<<>>, INITIAL_ODS_POINTS), INITIAL_ORBIT_POINTS)
    /\ roots = [points |-> Len(INITIAL_ODS_POINTS) + 1,
                orbitPoints |-> Len(INITIAL_ODS_POINTS) + Len(INITIAL_ORBIT_POINTS) + 2]
    /\ snap = NoSnap
    /\ KernelIdle
    /\ ComponentIdle
    /\ OrbitIdle

NextSnapshot ==
    \/ SnapshotCall
    \/ Capture
    \/ ReadSensor
    \/ NextFrame

SpecSnapshot == InitSnapshot /\ [][NextSnapshot]_vars

\* -------------------------------------------- the Interface's handlers

toggleSettings(s) == [isSettingsOpen |-> ~s.isSettingsOpen]
toggleUploadModal(s) == [isUploadModalOpen |-> ~s.isUploadModalOpen]
toggleAnalysisMode(s) == [isAnalysisMode |-> ~s.isAnalysisMode]
selectPoint(id) == [selectedPointId |-> id]

\* activePoints.find(p => p.id === selectedPointId)
selectedPoint(s) ==
    Find(IF s.appMode = "ORBIT" THEN s.orbitPoints ELSE s.points, s.selectedPointId)

\* updateComponent(field, value) on the axis shown.
updateComponent(s, activeAxis, over) ==
    IF selectedPoint(s) = Undefined THEN [points |-> s.points]
    ELSE updatePoint(s, selectedPoint(s).id,
                     [a \in {activeAxis} |-> Spread(selectedPoint(s)[activeAxis], over)])

\* manualHarmonics.map(h => ({ order, amplitudeRatio, phaseShift: 0 }))
ManualHarmonics(manualFund, manualHarmonics) ==
    [i \in DOMAIN manualHarmonics |->
        Harmonic(manualHarmonics[i].order,
                 IF RLt(Zero, manualFund.amp)
                 THEN RDiv(manualHarmonics[i].amp, manualFund.amp) ELSE Zero,
                 Zero)]

\* applyManualSimulation: the store after updatePoint and toggleUploadModal.
applyManualSimulation(s, activeAxis, manualFund, manualHarmonics) ==
    IF selectedPoint(s) = Undefined THEN s
    ELSE LET comp == [amplitude |-> manualFund.amp, phase |-> manualFund.phase,
                      harmonics |-> ManualHarmonics(manualFund, manualHarmonics),
                      noise |-> Zero]
             s1 == Set(s, updatePoint(s, selectedPoint(s).id,
                                      [a \in {activeAxis} |-> comp]))
         IN  Set(s1, toggleUploadModal(s1))

\* The axis the panel shows: horizontal in ORBIT mode, else the initial tab.
ActiveAxes(s) == IF s.appMode = "ORBIT" THEN {"horizontal"} ELSE {"vertical"}

\* What the user can pick or type.
UIModes(s) ==
    IF s.appMode = "ODS" THEN {ODSMode.SoftFoot}
    ELSE {OrbitFault.Rub}
UISelectable == {"m-foot-de-r"}
UIRpms == {I(-1480)}
UILineFreqs == {I(60)}
UIComponentEdits == {[amplitude |-> I(5)]}
UIManualFunds == {[amp |-> I(4), phase |-> I(90)]}
UIManualHarmonics == {<<[order |-> I(2), amp |-> I(2)]>>,
                      <<[order |-> Zero, amp |-> One]>>}

ClickAppMode(mode) ==
    /\ store' = Set(store, setAppMode(mode))
    /\ lastOp' = [op |-> "setAppMode", mode |-> mode]
    /\ UNCHANGED <<consumers, runvars>>

HandleModeChange(mode) ==
    /\ mode \in UIModes(store)
    /\ store' = Set(store, resetToMode(store, mode))
    /\ lastOp' = [op |-> "resetToMode", mode |-> mode]
    /\ UNCHANGED <<consumers, runvars>>

ClickSettings ==
    /\ store' = Set(store, toggleSettings(store))
    /\ lastOp' = [op |-> "toggleSettings"]
    /\ UNCHANGED <<consumers, runvars>>

TypeMachineRpm(machineRpm) ==
    /\ store.isSettingsOpen
    /\ store' = Set(store, setMachineRpm(store, machineRpm))
    /\ lastOp' = [op |-> "setMachineRpm", machineRpm |-> machineRpm]
    /\ UNCHANGED <<consumers, runvars>>

ClickLineFreq(lineFreq) ==
    /\ store.isSettingsOpen
    /\ store' = Set(store, setLineFreq(store, lineFreq))
    /\ lastOp' = [op |-> "setLineFreq", lineFreq |-> lineFreq]
    /\ UNCHANGED <<consumers, runvars>>

ClickSensor(id) ==
    /\ id \in Ids(store.points)
    /\ store' = Set(store, selectPoint(id))
    /\ lastOp' = [op |-> "selectPoint", id |-> id]
    /\ UNCHANGED <<consumers, runvars>>

\* The panel of the selected sensor is rendered.
PanelShown(s) == selectedPoint(s) # Undefined /\ ~s.isAnalysisMode

ClickAnalysisMode ==
    /\ store' = Set(store, toggleAnalysisMode(store))
    /\ lastOp' = [op |-> "toggleAnalysisMode"]
    /\ UNCHANGED <<consumers, runvars>>

EditComponent(activeAxis, over) ==
    /\ PanelShown(store)
    /\ activeAxis \in ActiveAxes(store)
    /\ store' = Set(store, updateComponent(store, activeAxis, over))
    /\ lastOp' = [op |-> "updateComponent", axis |-> activeAxis, over |-> over]
    /\ UNCHANGED <<consumers, runvars>>

\* The panel's button opens the form, the form's button closes it.
ClickUploadModal ==
    /\ PanelShown(store) \/ store.isUploadModalOpen
    /\ store' = Set(store, toggleUploadModal(store))
    /\ lastOp' = [op |-> "toggleUploadModal"]
    /\ UNCHANGED <<consumers, runvars>>

ApplyManualSimulation(activeAxis, manualFund, manualHarmonics) ==
    /\ store.isUploadModalOpen
    /\ activeAxis \in ActiveAxes(store)
    /\ store' = applyManualSimulation(store, activeAxis, manualFund, manualHarmonics)
    /\ lastOp' = [op |-> "applyManualSimulation", axis |-> activeAxis,
                  manualFund |-> manualFund, manualHarmonics |-> manualHarmonics]
    /\ UNCHANGED <<consumers, runvars>>

\* The ORBIT-mode panel button.
ClickOrbitPlot ==
    /\ store.appMode = "ORBIT"
    /\ store' = Set(store, toggleOrbitPlot(store))
    /\ lastOp' = [op |-> "toggleOrbitPlot", from |-> "panel"]
    /\ UNCHANGED <<consumers, runvars>>

\* The close button of OrbitWindow, rendered while the plot is open.
ClickOrbitClose ==
    /\ store.isOrbitPlotOpen
    /\ probeOf(store.orbitPoints, "probe-x") # Undefined
    /\ store' = Set(store, toggleOrbitPlot(store))
    /\ lastOp' = [op |-> "toggleOrbitPlot", from |-> "window"]
    /\ UNCHANGED <<consumers, runvars>>

InitUI == InitStore

NextUI ==
    \/ \E mode \in {"ODS", "ORBIT"} : ClickAppMode(mode)
    \/ \E mode \in ODSModes \cup OrbitFaults : HandleModeChange(mode)
    \/ ClickSettings
    \/ ClickAnalysisMode
    \/ \E machineRpm \in UIRpms : TypeMachineRpm(machineRpm)
    \/ \E lineFreq \in UILineFreqs : ClickLineFreq(lineFreq)
    \/ \E id \in UISelectable : ClickSensor(id)
    \/ \E activeAxis \in {"horizontal", "vertical", "axial"}, over \in UIComponentEdits :
            EditComponent(activeAxis, over)
    \/ ClickUploadModal
    \/ \E activeAxis \in {"horizontal", "vertical", "axial"},
           manualFund \in UIManualFunds, manualHarmonics \in UIManualHarmonics :
            ApplyManualSimulation(activeAxis, manualFund, manualHarmonics)
    \/ ClickOrbitPlot
    \/ ClickOrbitClose

SpecUI == InitUI /\ [][NextUI]_vars

\* =================================================================== claims

Waveform(comp) ==
    calculateComponentDisplacement(comp, Omega(kin.animationRpm), kin.t, One, One)
Scaled(comp) == RMul(RMul(Waveform(comp), kin.globalGain), R(15, 1000))
KDone == kpc = "done"

\* C1: in every tick all consumers of the displacement field query it at the
\* same clock value, whenever they were mounted: any two consumers that
\* evaluated in the latest frame passed the same time.
C1_SameClockPerTick ==
    \A a, b \in ConsumerKeys :
        (consumers[a].evaluated /\ consumers[b].evaluated)
            => consumers[a].evalT = consumers[b].evalT

\* C2: on every tick the clock of every subscribed consumer grows by delta
\* when isPlaying and stays when paused, also when its ref is not available.
C2_TickAdvancesClock ==
    [][lastOp'.op = "tick" =>
        \A k \in ConsumerKeys :
            consumers[k].mounted =>
                consumers'[k].timeRef =
                    consumers[k].timeRef + (IF store.isPlaying THEN lastOp'.delta ELSE 0)]_vars

C4_ToggleIdempotent ==
    (lastOp.op = "togglePlay" /\ lastOp.twice) => store.isPlaying = lastOp.before

\* C4 amended: togglePlay is an involution: two toggles in succession restore
\* isPlaying to its value before the first.
C4_ToggleInvolution ==
    (lastOp.op = "togglePlay" /\ lastOp.twice) => store.isPlaying = lastOp.first

C4_Witness == lastOp.op = "togglePlay" /\ lastOp.twice /\ ~store.isPlaying

\* C5: togglePlay changes isPlaying and nothing else: every other store field
\* and every consumer's clock and state are as before.
C5_TogglePlayFrame ==
    [][lastOp'.op = "togglePlay" =>
        /\ DOMAIN store' = DOMAIN store
        /\ \A f \in DOMAIN store \ {"isPlaying"} : store'[f] = store[f]
        /\ consumers' = consumers]_vars

C5_Witness ==
    /\ lastOp.op = "togglePlay"
    /\ store.currentMode # InitialStore.currentMode
    /\ store.orbitPoints # InitialStore.orbitPoints
    /\ store.appMode = "ORBIT"
    /\ \E k \in ConsumerKeys : consumers[k].timeRef > 0

\* C6: with an empty roster calculateVertexDisplacement returns exactly (0,0,0).
C6_EmptyRosterZero ==
    (KDone /\ kin.points = <<>>) => kacc = <<Zero, Zero, Zero>>

C6_Witness ==
    KDone /\ kin.points = <<>> /\ kin.t = One /\ kin.globalGain = I(10) /\ kin.x = One

C8_SingleSensorAtPosition ==
    (KDone /\ Len(kin.points) = 1 /\ kin.points[1].position = <<kin.x, kin.y, kin.z>>)
        => kacc = <<Scaled(kin.points[1].horizontal),
                    Scaled(kin.points[1].vertical),
                    Scaled(kin.points[1].axial)>>

C8_Witness ==
    /\ KDone /\ Len(kin.points) = 1
    /\ kin.points[1].position = <<kin.x, kin.y, kin.z>>
    /\ kacc[1] # Zero /\ kacc[2] # Zero /\ kacc[3] # Zero
    /\ kacc[1] # kacc[2] /\ kacc[2] # kacc[3] /\ kacc[1] # kacc[3]

\* C9: for a non-empty roster each output axis lies between the least and the
\* greatest of the sensors' scaled values on that axis.
C9_WeightedAverageBounds ==
    (KDone /\ klog # <<>>) =>
        /\ \E i \in DOMAIN klog : RLe(klog[i].magH, kacc[1])
        /\ \E i \in DOMAIN klog : RLe(kacc[1], klog[i].magH)
        /\ \E i \in DOMAIN klog : RLe(klog[i].magV, kacc[2])
        /\ \E i \in DOMAIN klog : RLe(kacc[2], klog[i].magV)
        /\ \E i \in DOMAIN klog : RLe(klog[i].magA, kacc[3])
        /\ \E i \in DOMAIN klog : RLe(kacc[3], klog[i].magA)

C9_Witness ==
    /\ KDone
    /\ \E i, j \in DOMAIN klog :
        RLt(klog[i].magH, kacc[1]) /\ RLt(kacc[1], klog[j].magH)
    /\ \E i, j \in DOMAIN klog :
        RLt(klog[i].magV, kacc[2]) /\ RLt(kacc[2], klog[j].magV)
    /\ \E i, j \in DOMAIN klog :
        RLt(klog[i].magA, kacc[3]) /\ RLt(kacc[3], klog[j].magA)

C13_KernelReadOnly ==
    [][(kpc # "idle" /\ kpc # "done") => (kin' = kin /\ store' = store)]_vars

C13_Witness ==
    /\ KDone /\ Len(kin.points) = MaxSensors
    /\ kin.points[1] # kin.points[2]
    /\ kacc # <<Zero, Zero, Zero>>
    /\ store.points = INITIAL_ODS_POINTS

\* ---- rosters

\* The ids of a roster, and its length, are those of before.
RosterKept(before, after) ==
    /\ Ids(before) \subseteq Ids(after)
    /\ Len(after) = Len(before)

\* The step replaces sensors by design of its arguments: setAllPoints, or an
\* updatePoint whose updates carry an id.
ReplacesSensors(op) ==
    \/ op.op = "setAllPoints"
    \/ op.op = "updatePoint" /\ "id" \in DOMAIN op.updates

\* C19 as stated: no store action destroys a sensor: every id of the ODS
\* roster and of the Orbit roster is still in that roster after the action.
C19_SensorsNeverDestroyed ==
    [][/\ Ids(store.points) \subseteq Ids(store'.points)
       /\ Ids(store.orbitPoints) \subseteq Ids(store'.orbitPoints)]_vars

\* C19: setReferencePoint, resetToMode, setMachineRpm, setLineFreq, setAppMode
\* and an updatePoint whose updates carry no id keep the ids and the length of
\* both rosters; setAllPoints installs one of its argument rosters as the ODS
\* roster and leaves the Orbit roster as it was.
C19_SensorsKeptUnlessReplaced ==
    [][/\ ~ReplacesSensors(lastOp') =>
            /\ RosterKept(store.points, store'.points)
            /\ RosterKept(store.orbitPoints, store'.orbitPoints)
       /\ lastOp'.op = "setAllPoints" =>
            /\ store'.points \in StoreRosters
            /\ store'.orbitPoints = store.orbitPoints]_vars

\* An imported roster has been through a preset reset and a reference change.
C19_Witness ==
    /\ lastOp.op = "setReferencePoint"
    /\ store.currentMode = ODSMode.SoftFoot
    /\ Ids(store.points) = Ids(ImportedPoints)
    /\ Ids(store.orbitPoints) = Ids(INITIAL_ORBIT_POINTS)

UniqueIn(points) ==
    \A i, j \in DOMAIN points : points[i].id = points[j].id => i = j

\* C20: in every reachable store state no two sensors share an id, within
\* the ODS roster, within the Orbit roster, or across the two.
C20_UniqueIds ==
    /\ UniqueIn(store.points)
    /\ UniqueIn(store.orbitPoints)
    /\ Ids(store.points) \cap Ids(store.orbitPoints) = {}

\* ---- single store calls

\* The call of kind op has been applied at least once.
Called(op) == "call" \in DOMAIN lastOp /\ lastOp.op = op /\ lastOp.applied >= 1

\* Every field of the store outside the set fields is as before the call.
OthersKept(before, after, fields) ==
    \A f \in DOMAIN after \ fields : after[f] = before[f]

\* Identity and rest position of each sensor, in roster order.
Identity(points) ==
    [i \in DOMAIN points |-> <<points[i].id, points[i].label, points[i].position>>]

\* C23: resetToMode (every ODS mode and orbit fault), setMachineRpm,
\* setLineFreq and setReferencePoint leave the length and order of both
\* rosters and every sensor's id, label and position as they were.
C23_IdentityAndPositionKept ==
    (\E op \in {"resetToMode", "setMachineRpm", "setLineFreq", "setReferencePoint"} :
        Called(op)) =>
        /\ Identity(store.points) = Identity(lastOp.before.points)
        /\ Identity(store.orbitPoints) = Identity(lastOp.before.orbitPoints)

\* The soft-foot preset has rewritten an edited ODS roster.
C23_Witness ==
    /\ Called("resetToMode")
    /\ lastOp.call.mode = ODSMode.SoftFoot
    /\ lastOp.before = PreEdited
    /\ store.points # lastOp.before.points

\* C25: resetToMode with an orbit fault changes only orbitPoints and
\* currentOrbitFault and leaves the keyphasor sensor as it was; with an ODS
\* mode it changes only points and currentMode.
C25_ResetTouchesOwnFamily ==
    Called("resetToMode") =>
        IF lastOp.call.mode \in OrbitFaults
        THEN /\ OthersKept(lastOp.before, lastOp.once, {"orbitPoints", "currentOrbitFault"})
             /\ lastOp.once.currentOrbitFault = lastOp.call.mode
             /\ Find(lastOp.once.orbitPoints, "keyphasor")
                    = Find(lastOp.before.orbitPoints, "keyphasor")
        ELSE /\ OthersKept(lastOp.before, lastOp.once, {"points", "currentMode"})
             /\ lastOp.once.currentMode = lastOp.call.mode

\* An orbit fault has been applied to a store whose keyphasor and ODS
\* roster had been edited.
C25_Witness ==
    /\ Called("resetToMode")
    /\ lastOp.call.mode = OrbitFault.Rub
    /\ lastOp.before = PreEdited
    /\ lastOp.once.orbitPoints # lastOp.before.orbitPoints

\* The store with every component of both rosters as createPoint makes it.
ScrubPoint(p) ==
    createPoint(p.id, p.label, p.position[1], p.position[2], p.position[3], p.isReference)
Scrub(s) ==
    Set(s, [points |-> [i \in DOMAIN s.points |-> ScrubPoint(s.points[i])],
            orbitPoints |-> [i \in DOMAIN s.orbitPoints |-> ScrubPoint(s.orbitPoints[i])]])

\* The roster resetToMode(mode) writes.
Affected(s, mode) == IF mode \in OrbitFaults THEN s.orbitPoints ELSE s.points

\* C26 as stated: the affected roster after resetToMode(m) is the one the
\* call gives on the same store with all components replaced, and a second
\* resetToMode(m) changes nothing.
C26_ResetHistoryIndependent ==
    Called("resetToMode") =>
        /\ Affected(lastOp.once, lastOp.call.mode)
                = Affected(Apply(Scrub(lastOp.before), lastOp.call), lastOp.call.mode)
        /\ lastOp.applied = 2 => store = lastOp.once

\* C26: after resetToMode(m) every sensor of the affected roster other than
\* 'keyphasor' is what the call gives on the same store with all components
\* replaced; 'keyphasor' keeps the components it had; a second
\* resetToMode(m) changes nothing.
C26_ResetHistoryIndependentButKeyphasor ==
    Called("resetToMode") =>
        LET mode == lastOp.call.mode
            after == Affected(lastOp.once, mode)
            fresh == Affected(Apply(Scrub(lastOp.before), lastOp.call), mode)
            held == Affected(lastOp.before, mode)
        IN  /\ DOMAIN after = DOMAIN fresh
            /\ \A i \in DOMAIN after :
                    IF mode \in OrbitFaults /\ after[i].id = "keyphasor"
                    THEN after[i] = held[i]
                    ELSE after[i] = fresh[i]
            /\ lastOp.applied = 2 => store = lastOp.once

\* A preset has been applied twice to a store whose sensors had been edited.
C26_Witness ==
    /\ Called("resetToMode")
    /\ lastOp.applied = 2
    /\ lastOp.before = PreEdited
    /\ lastOp.call.mode \in {OrbitFault.Rub, ODSMode.LoosenessStructural}
    /\ Affected(store, lastOp.call.mode) # Affected(lastOp.before, lastOp.call.mode)

\* after is before with the sensors of that id merged with updates.
AllMerged(before, after, id, updates) ==
    /\ DOMAIN after = DOMAIN before
    /\ \A i \in DOMAIN before :
            after[i] = IF before[i].id = id THEN Spread(before[i], updates) ELSE before[i]

\* after is before with one sensor, of that id, merged with updates.
OneMerged(before, after, id, updates) ==
    /\ DOMAIN after = DOMAIN before
    /\ \E i \in DOMAIN before :
            /\ before[i].id = id
            /\ after[i] = Spread(before[i], updates)
            /\ \A j \in DOMAIN before \ {i} : after[j] = before[j]

References(s) ==
    {<<"points", i>> : i \in {j \in DOMAIN s.points : s.points[j].isReference}}
    \cup {<<"orbitPoints", i>> : i \in {j \in DOMAIN s.orbitPoints : s.orbitPoints[j].isReference}}

\* Each sensor is the reference iff its id is id.
ReferenceIs(points, id) == \A i \in DOMAIN points : points[i].isReference <=> points[i].id = id

\* Nothing but isReference differs between the rosters.
OnlyReferenceDiffers(before, after) ==
    /\ DOMAIN after = DOMAIN before
    /\ \A i \in DOMAIN before :
            after[i] = Spread(before[i], [isReference |-> after[i].isReference])

C22_SnapshotKept ==
    /\ Deref(heap, roots.points) = store.points
    /\ Deref(heap, roots.orbitPoints) = store.orbitPoints
    /\ snap.ref # 0 =>
          /\ Deref(heap, snap.ref) = snap.val
          /\ Len(snap.seen) <= Len(snap.val)
          /\ snap.seen = SubSeq(snap.val, 1, Len(snap.seen))

\* An evaluation is part-way through a roster the store has since replaced
\* by one of other values, the sensor next to be read among those changed.
C22_Witness ==
    /\ snap.ref # 0
    /\ snap.ref # roots.points
    /\ Len(snap.seen) > 0
    /\ Len(snap.seen) < Len(snap.val)
    /\ Len(store.points) = Len(snap.val)
    /\ store.points[Len(snap.seen) + 1] # snap.val[Len(snap.seen) + 1]

\* ---- the soft-foot preset

\* The order updateSoftFootPoints gives the soft foot's harmonic.
lfOrderOf(machineRpm, lineFreq) ==
    RDiv(RMul(RMul(I(2), lineFreq), I(60)), IF machineRpm = Zero THEN One ELSE machineRpm)

\* C24: whenever currentMode is SoftFoot, the vertical component of sensor
\* 'm-foot-de-r' has exactly one harmonic, of order
\* (2 * lineFreq * 60) / machineRpm with machineRpm 0 taken as 1, after any
\* interleaving of resetToMode(SoftFoot), setMachineRpm, setLineFreq and
\* setAppMode.
C24_SoftFootConsistent ==
    store.currentMode = ODSMode.SoftFoot =>
        LET harmonics == Find(store.points, "m-foot-de-r").vertical.harmonics
        IN  /\ Len(harmonics) = 1
            /\ harmonics[1].order = lfOrderOf(store.machineRpm, store.lineFreq)

\* ---- the data model

Axes == {"horizontal", "vertical", "axial"}

\* amplitude >= 0, noise >= 0 where present, every harmonic's order > 0.
ValidComponent(comp) ==
    /\ RLe(Zero, comp.amplitude)
    /\ HasField(comp, "noise") => RLe(Zero, comp.noise)
    /\ HasField(comp, "harmonics") =>
            \A i \in DOMAIN comp.harmonics : RLt(Zero, comp.harmonics[i].order)

ValidRoster(points) ==
    \A i \in DOMAIN points : \A a \in Axes : ValidComponent(points[i][a])

\* C21: every component of both rosters satisfies the data model in every
\* state the Interface's handlers reach: presets, machine RPM, line
\* frequency, slider edits and manual signal entry.
C21_ComponentsValid == ValidRoster(store.points) /\ ValidRoster(store.orbitPoints)

\* ---- the Interface

\* C29: in every state the Interface reaches, an open orbit plot implies
\* ORBIT mode, and a mode switch leaves the plot closed, no sensor selected
\* and the analysis mode off.
C29_PlotOnlyInOrbitMode ==
    /\ store.isOrbitPlotOpen => store.appMode = "ORBIT"
    /\ lastOp.op = "setAppMode" =>
            /\ ~store.isOrbitPlotOpen
            /\ store.selectedPointId = "null"
            /\ ~store.isAnalysisMode

\* The plot is open, opened from the ORBIT-mode panel.
C29_Witness ==
    /\ store.isOrbitPlotOpen
    /\ lastOp.op = "toggleOrbitPlot"
    /\ lastOp.from = "panel"
    /\ store.currentOrbitFault = OrbitFault.Rub

\* ---- component evaluation

EDone == epc = "done"
RAbs(a) == [n |-> Abs(a.n), d |-> a.d]
HarmonicsOf(comp) == IF HasField(comp, "harmonics") THEN comp.harmonics ELSE <<>>
NoiseOf(comp) == IF HasField(comp, "noise") THEN comp.noise ELSE Zero

NonNegative(comp) ==
    /\ RLe(Zero, comp.amplitude)
    /\ RLe(Zero, NoiseOf(comp))
    /\ \A i \in DOMAIN HarmonicsOf(comp) : RLe(Zero, HarmonicsOf(comp)[i].amplitudeRatio)

\* The rearrangements of a sequence.
Rearrangements(seq) ==
    {[i \in DOMAIN seq |-> seq[f[i]]] :
        f \in {g \in [DOMAIN seq -> DOMAIN seq] : \A i, j \in DOMAIN seq : g[i] = g[j] => i = j}}

\* The call of the run repeated with the harmonics rearranged as hs.
EvalPermuted(hs) ==
    calculateComponentDisplacementFl(ein.format, [ein.comp EXCEPT !.harmonics = hs],
                                     ein.omega, ein.t, ein.globalGain, ein.scalar)

RECURSIVE RatioSum(_, _)
RatioSum(hs, i) ==
    IF i > Len(hs) THEN Zero ELSE RAdd(RAbs(hs[i].amplitudeRatio), RatioSum(hs, i + 1))

\* amplitude * (1 + sum of ratios) + 1.5 * noise: the sum of the largest
\* magnitudes of the terms of val.
TermBound(comp) ==
    RAdd(RMul(RAbs(comp.amplitude), RAdd(One, RatioSum(HarmonicsOf(comp), 1))),
         RMul(R(3, 2), RAbs(NoiseOf(comp))))

\* Rounding allowance of one call in the format p: 2^-p per rounded operation
\* on val, of which there are at most 2 * harmonics + 6.
Tolerance(p, comp, globalGain, scalar) ==
    RMul(RMul(R(2 * Len(HarmonicsOf(comp)) + 6, Pow2(p)), TermBound(comp)),
         RMul(RAbs(globalGain), RAbs(scalar)))

\* C11 as stated: the value returned does not change when the harmonics are
\* permuted, in the number format of the run.
C11_HarmonicOrderIrrelevant ==
    (EDone /\ HasField(ein.comp, "harmonics")) =>
        \A hs \in Rearrangements(ein.comp.harmonics) : EvalPermuted(hs) = eout

\* C11 amended: permuting the harmonics leaves the value unchanged in exact
\* arithmetic, and in floating point changes it by no more than the rounding
\* allowance of the two calls.
C11_HarmonicOrderWithinRounding ==
    (EDone /\ HasField(ein.comp, "harmonics")) =>
        \A hs \in Rearrangements(ein.comp.harmonics) :
            IF ein.format = 0 THEN EvalPermuted(hs) = eout
            ELSE RLe(RAbs(RSub(EvalPermuted(hs), eout)),
                     RMul(I(2), Tolerance(ein.format, ein.comp, ein.globalGain, ein.scalar)))

C11_Witness ==
    /\ EDone /\ ein.format = SigBits
    /\ HasField(ein.comp, "harmonics") /\ Len(ein.comp.harmonics) = MaxHarmonics
    /\ \E hs \in Rearrangements(ein.comp.harmonics) : EvalPermuted(hs) # eout

\* C12: a component with amplitude 0, noise 0 or absent and harmonics empty
\* or absent evaluates to 0, for every omega, time, gain, scalar and format.
C12_ZeroComponentZero ==
    (EDone /\ ein.comp.amplitude = Zero /\ NoiseOf(ein.comp) = Zero
           /\ HarmonicsOf(ein.comp) = <<>>) => eout = Zero

C12_Witness ==
    /\ EDone /\ ein.comp.amplitude = Zero
    /\ ~HasField(ein.comp, "noise") /\ ~HasField(ein.comp, "harmonics")
    /\ ein.comp.phase = I(90) /\ ein.t = R(18, 5)
    /\ ein.globalGain = I(10) /\ ein.format = SigBits

\* The run evaluates the bare waveform: exact arithmetic, unit gain and scalar.
BareWaveform == EDone /\ ein.format = 0 /\ ein.globalGain = One /\ ein.scalar = One

\* C16 as stated: peak = amplitude + sum(amplitude * ratio) + noise bounds
\* the absolute value of the evaluated waveform, for non-negative parameters.
C16_PeakBoundsWaveform ==
    (BareWaveform /\ NonNegative(ein.comp)) => RLe(RAbs(eout), getPeakAmp(ein.comp))

\* C16 amended: the noise term reaches up to 1.5 * noise, so the bound of the
\* evaluated waveform is peak + 0.5 * noise; peak itself bounds the waveform
\* of a component without noise.
C16_PeakPlusHalfNoiseBoundsWaveform ==
    (BareWaveform /\ NonNegative(ein.comp)) =>
        RLe(RAbs(eout), RAdd(getPeakAmp(ein.comp), RMul(R(1, 2), NoiseOf(ein.comp))))

C16_Witness ==
    /\ BareWaveform /\ NonNegative(ein.comp)
    /\ ein.comp.amplitude = One /\ HarmonicsOf(ein.comp) # <<>>
    /\ RLt(getPeakAmp(ein.comp), RAbs(eout))

\* ---- orbit plot

ODone == opc = "done"
Drawn == ODone /\ opath # <<>>
ProbeX == probeOf(oin.orbitPoints, "probe-x")
ProbeY == probeOf(oin.orbitPoints, "probe-y")

\* C14: every sample's value is the component evaluation of the probe's
\* component at angular velocity 1 and the sample's t (fundamental, harmonics
\* and noise term), with unit gain and scalar.
C14_SamplerIsComponentModel ==
    \A j \in DOMAIN opath :
        /\ opath[j].valX = calculateComponentDisplacement(ProbeX, One, opath[j].t, One, One)
        /\ opath[j].valY = calculateComponentDisplacement(ProbeY, One, opath[j].t, One, One)

\* C15 as stated: the polyline has exactly P = 720 samples, sample i taken at
\* t = (i / P) * N * 2 * pi for i in 0..P-1; t = N * 2 * pi is not sampled.
C15_SamplesHalfOpen ==
    Drawn =>
        /\ Len(opath) = PlotPoints
        /\ \A j \in DOMAIN opath :
              /\ opath[j].t = RMul(R(j - 1, PlotPoints), duration)
              /\ RLt(opath[j].t, duration)

\* C15 amended: the polyline has P + 1 = 721 samples, sample i taken at
\* t = (i / P) * N * 2 * pi for i in 0..P: the closed interval, its last
\* sample at the endpoint t = N * 2 * pi.
C15_SamplesClosed ==
    /\ \A j \in DOMAIN opath : opath[j].t = RMul(R(j - 1, PlotPoints), duration)
    /\ Drawn =>
          /\ Len(opath) = PlotPoints + 1
          /\ opath[1].t = Zero
          /\ opath[Len(opath)].t = duration

C15_Witness ==
    /\ Drawn
    /\ opath[Len(opath)].t = I(numCycles * 360)
    /\ opath[Len(opath)].px # opath[1].px

InsideViewport(px, py) ==
    /\ RLt(RAbs(RSub(px, centerX)), R(width, 2))
    /\ RLt(RAbs(RSub(py, centerY)), R(width, 2))

\* C17: for probes with non-negative amplitude, ratios and noise, every
\* plotted sample and the keyphasor dot lie strictly inside the viewport:
\* |value * scale| < width / 2 on both axes.
C17_NoClipping ==
    (opc \in {"loop", "done"} /\ NonNegative(ProbeX) /\ NonNegative(ProbeY)) =>
        /\ \A j \in DOMAIN opath : InsideViewport(opath[j].px, opath[j].py)
        /\ Drawn => InsideViewport(odot[1], odot[2])

C17_Witness ==
    /\ Drawn
    /\ HarmonicsOf(ProbeX) # <<>>
    /\ \E j \in DOMAIN opath : RLt(R(width, 4), RAbs(RSub(opath[j].px, centerX)))
    /\ odot # <<centerX, centerY>>

\* C18: the keyphasor dot is a position on the plotted trajectory: it
\* coincides with the curve's point at some sampled t in [0, N * 2 * pi).
C18_KeyphasorOnCurve ==
    Drawn =>
        \E j \in 1..PlotPoints : <<opath[j].px, opath[j].py>> = odot

====
